---------------------------- MODULE Spec2Model ----------------------------
(***************************************************************************)
(* Late safepoint placement (lib/Transforms/Scalar/SafepointPlacementPass). *)
(* The pass is modelled as a state machine over one function F of a small   *)
(* SSA IR: poll-site selection, poll inlining, liveness, base-pointer       *)
(* resolution, statepoint materialization and relocation rewriting.         *)
(***************************************************************************)
EXTENDS Integers, Sequences, FiniteSets, TLC

VARIABLES
    F,          \* the function being transformed (IR record, see MkFunc)
    F0,         \* the function as it was handed to the pass
    opt,        \* command line options of the pass
    poll,       \* body of gc.safepoint_poll (sequence of blocks)
    pc,         \* position inside runOnFunction / insertParsePoints
    PollLocations,    \* PlaceBackedgeSafepointsImpl::PollLocations
    pollIdx,          \* index of the next poll location to inline
    polled,           \* terminators a poll was inlined in front of
    inlined,          \* instructions cloned from the poll body
    ParsePointNeeded, \* vector<CallSite> of runOnFunction / toUpdate
    records,          \* vector<PartiallyConstructedSafepointRecord>
    idx,              \* loop index of the running per-site loop
    todo,             \* live values of site idx still without a base
    DVCache,          \* DefiningValueMapTy
    holders,          \* dummy calls keeping bases live
    live,             \* vector of tracked values handed to relocationViaAlloca
    allocaMap,        \* value -> stack slot
    relocations,      \* the tracked values in the order the DenseMap relocations yields them
    Fmat,             \* the function right before relocationViaAlloca
    failed,           \* assertions of the source that did not hold
    liveness,         \* GCPtrLivenessData and the worklist of computeGCPtrLiveness
    search,           \* the states map and the loop position of findBasePointer
    currentBB         \* the block findLocationForEntrySafepoint has walked to

vars == <<F, F0, opt, poll, pc, PollLocations, pollIdx, polled, inlined,
          ParsePointNeeded, records, idx, todo, DVCache, holders, live,
          allocaMap, relocations, Fmat, failed, liveness, search, currentBB>>

-----------------------------------------------------------------------------
(* Bounds of the explored inputs *)

MaxCalls == 2      \* calls in the body of a straight-line input
MaxTrip == 1       \* largest constant trip count given to a loop

-----------------------------------------------------------------------------
(* Generic helpers *)

Range(s) == {s[i] : i \in DOMAIN s}

IndexOf(s, x) == CHOOSE i \in DOMAIN s : s[i] = x

InsertAt(s, k, x) == SubSeq(s, 1, k - 1) \o <<x>> \o SubSeq(s, k, Len(s))

RemoveAt(s, k) == SubSeq(s, 1, k - 1) \o SubSeq(s, k + 1, Len(s))

\* the sequences that hold every element of S once
Orderings(S) ==
    {s \in [1 .. Cardinality(S) -> S] : \A i, j \in DOMAIN s : s[i] = s[j] => i = j}

RECURSIVE SeqOfSet(_)
SeqOfSet(S) ==
    IF S = {} THEN <<>>
    ELSE LET m == CHOOSE x \in S : \A y \in S : x <= y
         IN <<m>> \o SeqOfSet(S \ {m})

RECURSIVE Filter(_, _)
Filter(s, S) ==
    IF s = <<>> THEN <<>>
    ELSE (IF Head(s) \in S THEN <<Head(s)>> ELSE <<>>) \o Filter(Tail(s), S)

RECURSIVE Flatten(_)
Flatten(ss) == IF ss = <<>> THEN <<>> ELSE Head(ss) \o Flatten(Tail(ss))

-----------------------------------------------------------------------------
(* The IR.  Values are integers: Null and Undef are the two pointer         *)
(* constants, arguments are 1..9, instructions are numbered from 10.        *)

Null == 0
Undef == -1
NoValue == -2
TypeTag == -3            \* the i32 constant that encodes the type of a VM state element
JVMStateAnchor == -4     \* the global llvm.jvmstate_anchor

IsArg(v) == v >= 1 /\ v <= 9
IsInstId(v) == v >= 10
IsConst(v) == v = Null \/ v = Undef

\* Types: "gc" and "gc2" are pointers in address space 1 (two pointee
\* types), "ptr" is a pointer in address space 0.
GCTypes == {"gc", "gc2"}

MkInst(op, ty, args, blks, callee) ==
    [op |-> op, ty |-> ty, args |-> args, blks |-> blks, callee |-> callee,
     md |-> FALSE, meta |-> <<>>, target |-> ""]

Call(callee, ty, args) == MkInst("call", ty, args, <<>>, callee)
Invoke(callee, ty, args, blks) == MkInst("invoke", ty, args, blks, callee)
Ret(args) == MkInst("ret", "void", args, <<>>, "")
Br(blks) == MkInst("br", "void", <<>>, blks, "")
CondBr(c, blks) == MkInst("br", "void", <<c>>, blks, "")
Phi(ty, args, blks) == MkInst("phi", ty, args, blks, "")
Gep(ty, p) == MkInst("gep", ty, <<p>>, <<>>, "")

MkFunc(name, attrs, argty, order, blocks, inst, trip) ==
    [name |-> name, attrs |-> attrs, argty |-> argty, order |-> order,
     blocks |-> blocks, inst |-> inst, trip |-> trip,
     next |-> (CHOOSE n \in DOMAIN inst : \A m \in DOMAIN inst : m <= n) + 1,
     nextb |-> (CHOOSE n \in DOMAIN blocks : \A m \in DOMAIN blocks : m <= n) + 1]

Blocks(f) == DOMAIN f.blocks
Insts(f) == DOMAIN f.inst
EntryBlock(f) == f.order[1]

TypeOf(f, v) ==
    IF IsConst(v) THEN "gc"
    ELSE IF v = TypeTag THEN "int"
    ELSE IF v = JVMStateAnchor THEN "ptr"
    ELSE IF IsArg(v) THEN f.argty[v]
    ELSE f.inst[v].ty

\* isGCPointerType: a pointer in address space 1
isGCPointerType(ty) == ty \in GCTypes

BlockOf(f, i) == CHOOSE b \in Blocks(f) : i \in Range(f.blocks[b])
PosOf(f, i) == IndexOf(f.blocks[BlockOf(f, i)], i)
Terminator(f, b) == f.blocks[b][Len(f.blocks[b])]
IsTerminator(f, i) == f.inst[i].op \in {"br", "ret", "unreachable", "invoke"}
Succs(f, b) == Range(f.inst[Terminator(f, b)].blks)
Preds(f, b) == {p \in Blocks(f) : b \in Succs(f, p)}

\* inst_iterator order: blocks in layout order, instructions in block order
AllInstsInOrder(f) == Flatten([k \in DOMAIN f.order |-> f.blocks[f.order[k]]])

Users(f, v) == {u \in Insts(f) : v \in Range(f.inst[u].args)}

\* Insert instruction record r with fresh id before position k of block b
AddInst(f, b, k, r) ==
    [f EXCEPT !.inst = f.inst @@ (f.next :> r),
              !.blocks[b] = InsertAt(f.blocks[b], k, f.next),
              !.next = f.next + 1]

AddBefore(f, i, r) == AddInst(f, BlockOf(f, i), PosOf(f, i), r)
AddAfter(f, i, r) == AddInst(f, BlockOf(f, i), PosOf(f, i) + 1, r)

\* eraseFromParent
EraseInst(f, i) ==
    LET b == BlockOf(f, i)
    IN [f EXCEPT !.blocks[b] = RemoveAt(f.blocks[b], PosOf(f, i)),
                 !.inst = [j \in Insts(f) \ {i} |-> f.inst[j]]]

ReplaceIn(s, old, new) == [k \in DOMAIN s |-> IF s[k] = old THEN new ELSE s[k]]

\* replaceAllUsesWith
RAUW(f, old, new) ==
    [f EXCEPT !.inst = [j \in Insts(f) |->
        [f.inst[j] EXCEPT !.args = ReplaceIn(f.inst[j].args, old, new)]]]

-----------------------------------------------------------------------------
(* Control flow graph, dominators, natural loops *)

RECURSIVE ReachFrom(_, _, _)
ReachFrom(f, seen, frontier) ==
    IF frontier = {} THEN seen
    ELSE LET nxt == (UNION {Succs(f, b) : b \in frontier}) \ seen
         IN ReachFrom(f, seen \cup nxt, nxt)

Reachable(f) == ReachFrom(f, {EntryBlock(f)}, {EntryBlock(f)})

RECURSIVE DomIter(_, _)
DomIter(f, D) ==
    LET D2 == [b \in Blocks(f) |->
                  IF b = EntryBlock(f) THEN {b}
                  ELSE {b} \cup
                       {d \in Blocks(f) : \A p \in Preds(f, b) : d \in D[p]}]
    IN IF D2 = D THEN D ELSE DomIter(f, D2)

\* DominatorTree: Dom(f)[b] is the set of blocks dominating b
Dom(f) == DomIter(f, [b \in Blocks(f) |-> Blocks(f)])

\* DT.dominates(a, b) on instructions (an argument dominates everything)
InstDominates(f, D, a, b) ==
    IF ~IsInstId(a) THEN TRUE
    ELSE LET ba == BlockOf(f, a)
             bb == BlockOf(f, b)
         IN IF ba = bb THEN PosOf(f, a) < PosOf(f, b) ELSE ba \in D[bb]

\* Natural loops: headers are targets of edges whose source they dominate
Backedges(f, D) == {e \in Blocks(f) \X Blocks(f) :
                       e[2] \in Succs(f, e[1]) /\ e[2] \in D[e[1]]}

LoopHeaders(f, D) == {e[2] : e \in Backedges(f, D)}

RECURSIVE BackReach(_, _, _, _)
BackReach(f, h, seen, frontier) ==
    IF frontier = {} THEN seen
    ELSE LET nxt == (UNION {Preds(f, b) : b \in frontier \ {h}}) \ seen
         IN BackReach(f, h, seen \cup nxt, nxt)

\* Loop::contains - the blocks of the loop with header h
LoopBlocks(f, D, h) ==
    LET latches == {e[1] : e \in {x \in Backedges(f, D) : x[2] = h}}
    IN BackReach(f, h, latches \cup {h}, latches)

-----------------------------------------------------------------------------
(* Callee classification *)

\* The VM state (llvm/IR/JVMState.h): a call of a jvmstate function whose
\* operands are the stack elements, the locals and the monitors; bci and the
\* three counts are kept in meta.  An anchor is a store of the state to
\* llvm.jvmstate_anchor; a call may also hold the state as its first argument
JVMState(bci, stack, locals, monitors) ==
    [MkInst("call", "state", stack \o locals \o monitors, <<>>, "jvmstate")
        EXCEPT !.meta = <<bci, Len(stack), Len(locals), Len(monitors)>>]

isJVMState(f, v) ==
    IsInstId(v) /\ v \in Insts(f) /\ f.inst[v].op = "call" /\ f.inst[v].callee = "jvmstate"

isJVMStateAnchorInstruction(f, i) ==
    /\ f.inst[i].op = "store"
    /\ f.inst[i].args[2] = JVMStateAnchor
    /\ isJVMState(f, f.inst[i].args[1])

bci(f, js) == f.inst[js].meta[1]
numStackElements(f, js) == f.inst[js].meta[2]
numLocals(f, js) == f.inst[js].meta[3]
numMonitors(f, js) == f.inst[js].meta[4]
stackElementAt(f, js, i) == f.inst[js].args[i]
localAt(f, js, i) == f.inst[js].args[numStackElements(f, js) + i]
monitorAt(f, js, i) == f.inst[js].args[numStackElements(f, js) + numLocals(f, js) + i]

\* Callees that are LLVM intrinsics (dyn_cast<IntrinsicInst> succeeds)
Intrinsics == {"llvm.memset", "llvm.memmove", "llvm.memcpy", "llvm.dbg",
               "llvm.statepoint", "llvm.gc.relocate", "llvm.gc.result"}

\* Callees declared with "gc-leaf-function"="true"
LeafFunctions == {"leaf", "use", "jvmstate"}

isStatepoint(f, i) == f.inst[i].callee = "llvm.statepoint"
isGCRelocate(f, i) == f.inst[i].callee = "llvm.gc.relocate"
isGCResult(f, i) == f.inst[i].callee = "llvm.gc.result"
isInlineAsm(f, i) == f.inst[i].callee = "asm"

\* only the attribute of the callee makes a leaf
isGCLeafFunction_AttributeOnly(f, i) == f.inst[i].callee \in LeafFunctions

isGCLeafFunction(f, i) ==
    IF f.inst[i].op = "call" /\ f.inst[i].callee \in Intrinsics
          /\ f.inst[i].callee \notin {"llvm.memset", "llvm.memmove", "llvm.memcpy"}
    THEN TRUE
    ELSE f.inst[i].callee \in LeafFunctions

needsStatepoint_AlwaysTrue(f, i) ==
    ~(f.inst[i].op = "call" /\ isInlineAsm(f, i))

needsStatepoint(f, i) ==
    IF isGCLeafFunction(f, i) THEN FALSE
    ELSE IF f.inst[i].op = "call" /\ isInlineAsm(f, i) THEN FALSE
    ELSE IF isStatepoint(f, i) \/ isGCRelocate(f, i) \/ isGCResult(f, i) THEN FALSE
    ELSE TRUE

\* nothing is dropped
unique_unsorted_KeepAll(vec) == vec

\* unique_unsorted: keep the first occurrence of every element
RECURSIVE unique_unsorted(_)
unique_unsorted(vec) ==
    IF vec = <<>> THEN <<>>
    ELSE LET init == unique_unsorted(SubSeq(vec, 1, Len(vec) - 1))
             x == vec[Len(vec)]
         IN IF x \in Range(init) THEN init ELSE Append(init, x)

-----------------------------------------------------------------------------
(* removeUnreachableBlocks (Transforms/Utils/Local) *)

Pick(s, ks) == [j \in 1..Len(ks) |-> s[ks[j]]]

RECURSIVE FoldPhis(_, _)
FoldPhis(f, phis) ==
    IF phis = {} THEN f
    ELSE LET i == CHOOSE x \in phis : TRUE
             v == f.inst[i].args[1]
         IN FoldPhis(IF v = i THEN f ELSE EraseInst(RAUW(f, i, v), i), phis \ {i})

removeUnreachableBlocks(f) ==
    LET R == Reachable(f)
        deadInsts == UNION {Range(f.blocks[b]) : b \in Blocks(f) \ R}
        keep(i) == SeqOfSet({k \in DOMAIN f.inst[i].blks : f.inst[i].blks[k] \in R})
        trimmed == {i \in Insts(f) \ deadInsts :
                       f.inst[i].op = "phi" /\ Len(keep(i)) < Len(f.inst[i].blks)}
        f1 == [f EXCEPT
                 !.blocks = [b \in R |-> f.blocks[b]],
                 !.order = Filter(f.order, R),
                 !.inst = [i \in Insts(f) \ deadInsts |->
                             IF i \in trimmed
                             THEN [f.inst[i] EXCEPT !.args = Pick(f.inst[i].args, keep(i)),
                                                    !.blks = Pick(f.inst[i].blks, keep(i))]
                             ELSE f.inst[i]]]
    IN FoldPhis(f1, {i \in trimmed : Len(keep(i)) = 1})

-----------------------------------------------------------------------------
(* A. Poll site selection *)

\* the attributes of the function are not consulted
shouldRun_AnyFunction(f, attr) == f.name # "gc.safepoint_poll"

shouldRun(f, attr) ==
    LET want == opt.AllFunctions \/ attr \in f.attrs
    IN want /\ f.name # "gc.safepoint_poll"

\* mustBeFiniteCountedLoop: f.trip[h] is what
\* ScalarEvolution::getSmallConstantTripCount answers for the loop of h
\* no loop is taken to be finite
mustBeFiniteCountedLoop_Never(f, D, h) == FALSE

mustBeFiniteCountedLoop(f, D, h) ==
    LET latches == {e[1] : e \in {x \in Backedges(f, D) : x[2] = h}}
        TripCount == IF Cardinality(latches) = 1 THEN f.trip[h] ELSE 0
    IN TripCount > 0

\* PlaceBackedgeSafepointsImpl::runOnLoop for the loop with header h:
\* the terminators it appends to PollLocations
runOnLoop(f, D, h) ==
    IF ~shouldRun(f, "gc-add-backedge-safepoints") THEN <<>>
    ELSE LET L == LoopBlocks(f, D, h)
             preds == SeqOfSet({p \in Preds(f, h) : p \in L})
             skip == ~opt.AllBackedges /\ mustBeFiniteCountedLoop(f, D, h)
         IN IF skip THEN <<>>
            ELSE [k \in DOMAIN preds |-> Terminator(f, preds[k])]

\* the walk goes on from every block that has a successor
EntryNext_AnySuccessor(f, bb) ==
    IF Succs(f, bb) = {} THEN NoValue ELSE CHOOSE b \in Succs(f, bb) : TRUE

\* findLocationForEntrySafepoint, lines 673-690: the block the loop goes on
\* to from bb, NoValue where it breaks
EntryNext(f, bb) ==
    LET succs == Succs(f, bb)
        nextBB == CHOOSE b \in succs : TRUE
    IN IF Cardinality(succs) # 1 THEN NoValue
       ELSE IF Cardinality(Preds(f, nextBB)) # 1 THEN NoValue
       ELSE nextBB

RECURSIVE EntryChain(_, _, _)
EntryChain(f, bb, fuel) ==
    IF EntryNext(f, bb) = NoValue \/ fuel = 0 THEN bb
    ELSE EntryChain(f, EntryNext(f, bb), fuel - 1)

findLocationForEntrySafepoint(f) ==
    IF ~shouldRun(f, "gc-add-entry-safepoints") THEN NoValue
    ELSE Terminator(f, EntryChain(f, EntryBlock(f), Cardinality(Blocks(f))))

\* invokes are passed over
findCallSafepoints_CallsOnly(f) ==
    IF ~shouldRun(f, "gc-add-call-safepoints") THEN <<>>
    ELSE Filter(AllInstsInOrder(f),
                {i \in Insts(f) : f.inst[i].op = "call" /\ needsStatepoint(f, i)})

findCallSafepoints(f) ==
    IF ~shouldRun(f, "gc-add-call-safepoints") THEN <<>>
    ELSE LET all == AllInstsInOrder(f)
         IN Filter(all, {i \in Insts(f) : f.inst[i].op \in {"call", "invoke"}
                                           /\ needsStatepoint(f, i)})

-----------------------------------------------------------------------------
(* B. Poll inlining *)

\* InlineFunction (Transforms/Utils/InlineFunction) applied to a call of
\* gc.safepoint_poll placed right before term.  body is the callee: a
\* sequence of blocks, the first its entry, the last its only returning one.
InlineFunction(f, term, body) ==
    LET m == Len(body)
        B == BlockOf(f, term)
        k == PosOf(f, term)
        pre == SubSeq(f.blocks[B], 1, k - 1)
        post == SubSeq(f.blocks[B], k, Len(f.blocks[B]))
        \* the cloned instructions of callee block j (its return is dropped)
        kept(j) == IF j = m THEN SubSeq(body[j], 1, Len(body[j]) - 1) ELSE body[j]
        RECURSIVE offset(_)
        offset(j) == IF j = 1 THEN 0 ELSE offset(j - 1) + Len(kept(j - 1))
        ids(j) == [n \in 1..Len(kept(j)) |-> f.next + offset(j) + n - 1]
        AfterBB == IF m = 1 THEN B ELSE f.nextb + m - 2
        bmap(j) == IF j = 1 THEN B ELSE IF j = m THEN AfterBB ELSE f.nextb + j - 2
        clone(r) == [r EXCEPT !.blks = [n \in DOMAIN r.blks |-> bmap(r.blks[n])]]
        newInst == [i \in UNION {Range(ids(j)) : j \in 1..m} |->
                      LET j == CHOOSE x \in 1..m : i \in Range(ids(x))
                      IN clone(kept(j)[IndexOf(ids(j), i)])]
        moved(r) == IF r.op = "phi" THEN [r EXCEPT !.blks = ReplaceIn(r.blks, B, AfterBB)]
                    ELSE r
        newBlocks == IF m = 1 THEN (B :> (pre \o ids(1) \o post))
                     ELSE (B :> (pre \o ids(1))) @@ (AfterBB :> (ids(m) \o post))
                          @@ [b \in {bmap(j) : j \in 2..(m - 1)} |->
                                ids(CHOOSE j \in 2..(m - 1) : bmap(j) = b)]
        posB == IndexOf(f.order, B)
        added == [j \in 1..(m - 1) |-> f.nextb + j - 1]
    IN [f |-> [f EXCEPT
                 !.inst = newInst @@ [i \in Insts(f) |-> moved(f.inst[i])],
                 !.blocks = newBlocks @@ f.blocks,
                 !.order = SubSeq(f.order, 1, posB) \o added
                           \o SubSeq(f.order, posB + 1, Len(f.order)),
                 !.trip = [b \in DOMAIN newBlocks |-> 0] @@ f.trip,
                 !.next = f.next + offset(m) + Len(kept(m)),
                 !.nextb = f.nextb + m - 1],
        cloned |-> DOMAIN newInst,
        start |-> IF ids(1) = <<>> THEN term ELSE ids(1)[1]]

\* the scan starts at the first instruction of the block of start
scanOneBB_FromBlockBegin(f, start, end, st) ==
    LET b == BlockOf(f, start)
        blk == f.blocks[b]
        from == 1
        stop == IF end \in Range(SubSeq(blk, from, Len(blk)))
                THEN IndexOf(blk, end) ELSE Len(blk) + 1
        scanned == SubSeq(blk, from, stop - 1)
        found == Filter(scanned, {i \in Insts(f) : f.inst[i].op = "call"})
        succs == IF stop = Len(blk) + 1 THEN f.inst[blk[Len(blk)]].blks ELSE <<>>
        fresh == unique_unsorted(Filter(succs, Blocks(f) \ st.seen))
    IN [calls |-> st.calls \o found,
        seen |-> st.seen \cup Range(fresh),
        worklist |-> st.worklist \o fresh]

\* scanOneBB: st = [calls, seen, worklist]
scanOneBB(f, start, end, st) ==
    LET b == BlockOf(f, start)
        blk == f.blocks[b]
        from == PosOf(f, start)
        stop == IF end \in Range(SubSeq(blk, from, Len(blk)))
                THEN IndexOf(blk, end) ELSE Len(blk) + 1
        scanned == SubSeq(blk, from, stop - 1)
        found == Filter(scanned, {i \in Insts(f) : f.inst[i].op = "call"})
        succs == IF stop = Len(blk) + 1 THEN f.inst[blk[Len(blk)]].blks ELSE <<>>
        fresh == unique_unsorted(Filter(succs, Blocks(f) \ st.seen))
    IN [calls |-> st.calls \o found,
        seen |-> st.seen \cup Range(fresh),
        worklist |-> st.worklist \o fresh]

RECURSIVE scanWorklist(_, _, _)
scanWorklist(f, end, st) ==
    IF st.worklist = <<>> THEN st
    ELSE LET BB == st.worklist[Len(st.worklist)]
             popped == [st EXCEPT !.worklist = SubSeq(st.worklist, 1, Len(st.worklist) - 1)]
         IN scanWorklist(f, end, scanOneBB(f, f.blocks[BB][1], end, popped))

scanInlinedCode(f, start, end) ==
    scanWorklist(f, end,
        scanOneBB(f, start, end,
                  [calls |-> <<>>, seen |-> {BlockOf(f, start)}, worklist |-> <<>>])).calls

\* InsertSafepointPoll: the function after inlining, the instructions cloned
\* and the parse points reported
InsertSafepointPoll(f, term, body) ==
    LET inl == InlineFunction(f, term, body)
        calls == scanInlinedCode(inl.f, inl.start, term)
    IN [f |-> inl.f,
        cloned |-> inl.cloned,
        ParsePointsNeeded |-> Filter(calls, {i \in Insts(inl.f) : needsStatepoint(inl.f, i)})]

-----------------------------------------------------------------------------
(* Inputs: functions, poll bodies and option settings *)

\* %p, %q : GC pointers; %c : i1; %w : GC pointer of another pointee type
ArgTy == (1 :> "gc" @@ 2 :> "gc" @@ 3 :> "int" @@ 4 :> "gc2")

AllAttrs == {"gc-add-entry-safepoints", "gc-add-backedge-safepoints",
             "gc-add-call-safepoints"}

\* bl[b] is the sequence of <<id, instruction>> pairs of block b; block 1 is
\* the entry block
Prog(name, attrs, bl, trip) ==
    LET pairs == UNION {Range(bl[b]) : b \in DOMAIN bl}
    IN MkFunc(name, attrs, ArgTy, [b \in DOMAIN bl |-> b],
              [b \in DOMAIN bl |-> [k \in DOMAIN bl[b] |-> bl[b][k][1]]],
              [i \in {pr[1] : pr \in pairs} |-> (CHOOSE pr \in pairs : pr[1] = i)[2]],
              trip @@ [b \in DOMAIN bl |-> 0])

NoTrip == [b \in {} |-> 0]

CallMenu == {Call("foo", "void", <<>>), Call("newobj", "gc", <<>>),
             Call("leaf", "void", <<>>), Call("llvm.memcpy", "void", <<2>>)}

\* S1/S6: a chain of calls, then the results of the allocating calls are
\* used and %p is returned
Straight(cs) ==
    LET n == Len(cs)
        news == {9 + k : k \in {j \in 1..n : cs[j].callee = "newobj"}}
        tail == (IF news = {} THEN <<>> ELSE <<Call("use", "void", SeqOfSet(news))>>)
                \o <<Ret(<<1>>)>>
        all == cs \o tail
    IN Prog("straight", {}, <<[k \in 1..Len(all) |-> <<9 + k, all[k]>>]>>, NoTrip)

StraightProgs == {Straight(cs) : cs \in UNION {[1..n -> CallMenu] : n \in 0..MaxCalls}}

\* S2: a phi of two derived pointers, live across one or two calls
Diamond(l, r, two) ==
    Prog("diamond", {},
         << <<<<10, CondBr(3, <<2, 3>>)>>>>,
            <<<<11, l>>, <<12, Br(<<4>>)>>>>,
            <<<<13, r>>, <<14, Br(<<4>>)>>>>,
            <<<<15, Phi("gc", <<11, 13>>, <<2, 3>>)>>,
              <<16, Call("foo", "void", <<>>)>>,
              <<17, Call(IF two THEN "foo" ELSE "leaf", "void", <<>>)>>,
              <<18, Ret(<<15>>)>>>> >>, NoTrip)

DiamondProgs ==
    {Diamond(l, r, two) :
        l \in {Gep("gc", 1), MkInst("bitcast", "gc", <<4>>, <<>>, ""),
               Call("leaf", "gc", <<>>)},
        r \in {Gep("gc", 1), Gep("gc", 2)}, two \in BOOLEAN}

SelectProg ==
    Prog("select", {},
         << <<<<10, Gep("gc", 1)>>, <<11, Gep("gc", 2)>>,
              <<12, MkInst("select", "gc", <<3, 10, 11>>, <<>>, "")>>,
              <<13, Call("foo", "void", <<>>)>>, <<14, Ret(<<12>>)>>>> >>, NoTrip)

\* S3/S4: a loop in loop-simplified form whose header phi is carried
\* around the backedge
Loop(t, y, inner) ==
    Prog("loop", {},
         << <<<<10, Br(<<2>>)>>>>,
            <<<<11, Phi("gc", <<1, 13>>, <<1, 3>>)>>, <<12, CondBr(3, <<3, 4>>)>>>>,
            <<<<13, y>>, <<14, inner>>, <<15, Br(<<2>>)>>>>,
            <<<<16, Ret(<<11>>)>>>> >>, (2 :> t))

LoopProgs ==
    {Loop(t, y, inner) : t \in 0..MaxTrip, y \in {Gep("gc", 11), Gep("gc", 2)},
                         inner \in {Call("foo", "void", <<>>), Call("leaf", "void", <<>>)}}

\* a loop whose exit block uses no pointer
LoopVoid ==
    Prog("loopvoid", {},
         << <<<<10, Br(<<2>>)>>>>,
            <<<<11, Phi("gc", <<1, 13>>, <<1, 3>>)>>, <<12, CondBr(3, <<3, 4>>)>>>>,
            <<<<13, Gep("gc", 11)>>, <<14, Call("foo", "void", <<>>)>>, <<15, Br(<<2>>)>>>>,
            <<<<16, Ret(<<>>)>>>> >>, NoTrip)

\* single-entry single-exit blocks in front of the first branch; with back
\* the block after them is the header of a loop
Prologue(back) ==
    Prog("prologue", {},
         << <<<<10, Br(<<2>>)>>>>,
            <<<<11, Gep("gc", 1)>>, <<12, Br(<<3>>)>>>>,
            <<<<13, Call("foo", "void", <<>>)>>,
              <<14, CondBr(3, <<4, IF back THEN 3 ELSE 5>>)>>>>,
            <<<<15, Ret(<<11>>)>>>>,
            <<<<16, Ret(<<1>>)>>>> >>, NoTrip)

\* two phis that take each other as inputs; b is the second pointer
MutualPhis(b) ==
    Prog("mutual", {},
         << <<<<10, Br(<<2>>)>>>>,
            <<<<11, Phi("gc", <<1, 13>>, <<1, 3>>)>>, <<12, Br(<<3>>)>>>>,
            <<<<13, Phi("gc", <<11, b>>, <<2, 4>>)>>, <<14, Call("foo", "void", <<>>)>>,
              <<15, CondBr(3, <<2, 4>>)>>>>,
            <<<<16, CondBr(3, <<3, 5>>)>>>>,
            <<<<17, Ret(<<13>>)>>>> >>, NoTrip)

\* a single-block loop with a phi that is its own input
SelfLoop(t) ==
    Prog("selfloop", {},
         << <<<<10, Br(<<2>>)>>>>,
            <<<<11, Phi("gc", <<1, 11>>, <<1, 2>>)>>, <<12, Call("leaf", "void", <<11>>)>>,
              <<13, CondBr(3, <<2, 3>>)>>>>,
            <<<<14, Ret(<<11>>)>>>> >>, (2 :> t))

Nested(t1, t2) ==
    Prog("nested", {},
         << <<<<10, Br(<<2>>)>>>>,
            <<<<11, Br(<<3>>)>>>>,
            <<<<12, CondBr(3, <<3, 4>>)>>>>,
            <<<<13, CondBr(3, <<2, 5>>)>>>>,
            <<<<14, Ret(<<1>>)>>>> >>, (2 :> t1) @@ (3 :> t2))

LoopOnlyProgs ==
    {SelfLoop(t) : t \in 0..MaxTrip} \cup
    {Nested(t1, t2) : t1 \in 0..MaxTrip, t2 \in 0..MaxTrip}

\* a cycle entered at two places: no block of it dominates the other
Irreducible ==
    Prog("irreducible", {},
         << <<<<10, CondBr(3, <<2, 3>>)>>>>,
            <<<<11, Br(<<3>>)>>>>,
            <<<<12, CondBr(3, <<2, 4>>)>>>>,
            <<<<13, Ret(<<1>>)>>>> >>, NoTrip)

\* test/GarbageCollection/relocations/unrelated-phi.ll
UnrelatedPhi ==
    Prog("test", {},
         << <<<<10, CondBr(3, <<2, 4>>)>>>>,
            <<<<11, CondBr(3, <<3, 5>>)>>>>,
            <<<<12, Call("call2safepoint", "void", <<>>)>>, <<13, Br(<<4>>)>>>>,
            <<<<14, Phi("gc", <<1, 2>>, <<1, 3>>)>>, <<15, Br(<<5>>)>>>>,
            <<<<16, Phi("gc", <<1, 2>>, <<4, 2>>)>>, <<17, Ret(<<16>>)>>>> >>, NoTrip)

\* block 2 cannot be reached from the entry block
Unreachable ==
    Prog("unreachable", {},
         << <<<<10, Call("foo", "void", <<>>)>>, <<11, Br(<<3>>)>>>>,
            <<<<12, Br(<<3>>)>>>>,
            <<<<13, Phi("gc", <<1, 2>>, <<1, 2>>)>>, <<14, Ret(<<13>>)>>>> >>, NoTrip)

\* the result of an atomic compare-and-exchange on a derived pointer
Cas(useq) ==
    Prog("cas", {},
         << <<<<10, Gep("gc", 1)>>,
              <<11, MkInst("cmpxchg", "gc", <<10, 2, 2>>, <<>>, "")>>,
              <<12, Call("foo", "void", <<>>)>>,
              <<13, Call("use", "void", IF useq THEN <<11, 10>> ELSE <<11>>)>>,
              <<14, Ret(<<11>>)>>>> >>, NoTrip)

\* a call, then an invoke of callee whose result is used on the normal path
Invoking(callee) ==
    Prog("invoking", {},
         << <<<<10, Call("foo", "void", <<>>)>>,
              <<11, Invoke(callee, "gc", <<2>>, <<2, 3>>)>>>>,
            <<<<12, Call("use", "void", <<11>>)>>, <<13, Ret(<<11>>)>>>>,
            <<<<14, MkInst("landingpad", "token", <<>>, <<>>, "")>>,
              <<15, Ret(<<1>>)>>>> >>, NoTrip)

\* a leaf call between two calls that are not leaves
LeafBetween ==
    Straight(<<Call("foo", "void", <<>>), Call("leaf", "void", <<>>),
               Call("newobj", "gc", <<>>)>>)

\* the three memory intrinsics and one other intrinsic
MemIntrinsics ==
    Straight(<<Call("llvm.memset", "void", <<2>>), Call("llvm.dbg", "void", <<2>>),
               Call("llvm.memmove", "void", <<2>>), Call("llvm.memcpy", "void", <<2>>)>>)

\* a call that takes a derived pointer and whose result is used
DerivedArg ==
    Prog("derived", {},
         << <<<<10, Gep("gc", 1)>>,
              <<11, Call("bar", "gc", <<10, 2>>)>>,
              <<12, Call("use", "void", <<10, 11>>)>>,
              <<13, Ret(<<2>>)>>>> >>, NoTrip)

\* VM states: operand lists of the stack, the locals and the monitors
VMStateMenu ==
    {<< <<>>, <<>>, <<>> >>, << <<1>>, <<3, 2>>, <<4>> >>,
     << <<2>>, <<>>, <<>> >>, << <<>>, <<3>>, <<1, 2>> >>}

\* a call below an anchored VM state
VMAnchored(vs) ==
    Prog("anchored", {"gc-add-call-safepoints"},
         << <<<<10, JVMState(7, vs[1], vs[2], vs[3])>>,
              <<11, MkInst("store", "void", <<10, JVMStateAnchor>>, <<>>, "")>>,
              <<12, Call("bar", "gc", <<2>>)>>,
              <<13, Call("use", "void", <<12, 1>>)>>,
              <<14, Ret(<<1>>)>>>> >>, NoTrip)

\* a call that holds its VM state as first argument
VMHeld(vs) ==
    Prog("held", {"gc-add-call-safepoints"},
         << <<<<10, JVMState(5, vs[1], vs[2], vs[3])>>,
              <<11, Call("bar", "gc", <<10, 2>>)>>,
              <<12, Ret(<<11>>)>>>> >>, NoTrip)

\* the VM state of the call is anchored in the dominating block
VMDominating(vs) ==
    Prog("dominating", {"gc-add-call-safepoints"},
         << <<<<10, JVMState(3, vs[1], vs[2], vs[3])>>,
              <<11, MkInst("store", "void", <<10, JVMStateAnchor>>, <<>>, "")>>,
              <<12, Br(<<2>>)>>>>,
            <<<<13, Call("foo", "void", <<>>)>>,
              <<14, Ret(<<1>>)>>>> >>, NoTrip)

\* two calls, each below a VM state of its own
VMTwoStates ==
    Prog("twostates", {"gc-add-call-safepoints"},
         << <<<<10, JVMState(1, <<1>>, <<>>, <<>>)>>,
              <<11, MkInst("store", "void", <<10, JVMStateAnchor>>, <<>>, "")>>,
              <<12, Call("foo", "void", <<>>)>>,
              <<13, JVMState(2, <<>>, <<2, 4>>, <<>>)>>,
              <<14, MkInst("store", "void", <<13, JVMStateAnchor>>, <<>>, "")>>,
              <<15, Call("bar", "gc", <<1>>)>>,
              <<16, Ret(<<15>>)>>>> >>, NoTrip)

VMProgs ==
    {VMAnchored(vs) : vs \in VMStateMenu} \cup {VMHeld(vs) : vs \in VMStateMenu}
      \cup {VMDominating(vs) : vs \in VMStateMenu} \cup {VMTwoStates}

\* a pointer indexed off null, live across a call
NullBase ==
    Prog("nullbase", {},
         << <<<<10, Gep("gc", Null)>>,
              <<11, Call("foo", "void", <<>>)>>,
              <<12, Call("use", "void", <<10>>)>>,
              <<13, Ret(<<1>>)>>>> >>, NoTrip)

\* a function that owns a stack slot of its own
WithAlloca ==
    Prog("slots", {},
         << <<<<10, MkInst("alloca", "ptr", <<>>, <<>>, "")>>,
              <<11, Call("foo", "void", <<>>)>>,
              <<12, Call("use", "void", <<1, 2>>)>>,
              <<13, Ret(<<1>>)>>>> >>, NoTrip)

\* a function that already holds a statepoint sequence
Retransformed ==
    Prog("retransformed", {},
         << <<<<10, Call("foo", "void", <<>>)>>,
              <<11, Call("llvm.statepoint", "int", <<1>>)>>,
              <<12, Call("llvm.gc.result", "int", <<11>>)>>,
              <<13, Call("llvm.gc.relocate", "gc", <<11>>)>>,
              <<14, Call("asm", "void", <<>>)>>,
              <<15, Call("llvm.dbg", "void", <<>>)>>,
              <<16, Ret(<<13>>)>>>> >>, NoTrip)

PollSimple == << <<Call("do_safepoint", "void", <<>>), Ret(<<>>)>> >>

PollCond ==
    << <<MkInst("load", "int", <<>>, <<>>, ""), Br(<<2, 3>>)>>,
       <<Call("do_safepoint", "void", <<>>), Br(<<3>>)>>,
       <<Ret(<<>>)>> >>

PollOdd ==
    << <<Call("llvm.statepoint", "int", <<>>), Call("leaf", "void", <<>>),
         Call("do_safepoint", "void", <<>>), Ret(<<>>)>> >>

Options(af, ab, ne, nc, nb, df, bro) ==
    [AllFunctions |-> af, AllBackedges |-> ab, NoEntry |-> ne, NoCall |-> nc,
     NoBackedge |-> nb, DataflowLiveness |-> df, BaseRewriteOnly |-> bro,
     UseVMState |-> FALSE]

\* -spp-all-functions -spp-no-entry -spp-no-backedge, as the tests run it
TestOpts == {Options(TRUE, FALSE, TRUE, FALSE, TRUE, df, FALSE) : df \in BOOLEAN}

\* every kind of safepoint enabled
FullOpts == {Options(TRUE, ab, FALSE, FALSE, FALSE, df, FALSE) : ab, df \in BOOLEAN}

\* -spp-base-rewrite-only on top of the options of the tests
BaseOnlyOpts == {Options(TRUE, FALSE, TRUE, FALSE, TRUE, FALSE, TRUE)}

\* functions opt in by attribute, statepoints carry the VM state
VMOpts ==
    {[Options(FALSE, FALSE, FALSE, FALSE, FALSE, df, FALSE) EXCEPT !.UseVMState = TRUE]
       : df \in BOOLEAN}

\* functions opt in by attribute
AttrOpts == {Options(FALSE, FALSE, FALSE, FALSE, FALSE, FALSE, FALSE)}

AttrSets == {{}, {"gc-add-call-safepoints"}, {"gc-add-backedge-safepoints"}, AllAttrs}

WithAttrs(fs) == {[f EXCEPT !.attrs = a] : f \in fs, a \in AttrSets}

Input(fs, os, ps) == {[f |-> f, opt |-> o, poll |-> pb] : f \in fs, o \in os, pb \in ps}

Inputs ==
    Input(StraightProgs \cup DiamondProgs
            \cup {SelectProg, UnrelatedPhi, Unreachable, Retransformed, WithAlloca, DerivedArg,
                  LeafBetween, MemIntrinsics, NullBase}
            \cup {Cas(u) : u \in BOOLEAN}
            \cup {Invoking(c) : c \in {"bar", "leaf"}}
            \cup {MutualPhis(b) : b \in {1, 2}},
          TestOpts, {PollSimple})
    \cup Input({Straight(<<>>), Straight(<<Call("foo", "void", <<>>)>>),
                Straight(<<Call("newobj", "gc", <<>>)>>)} \cup DiamondProgs,
               BaseOnlyOpts, {PollSimple})
    \cup Input(LoopProgs \cup LoopOnlyProgs
                 \cup {Prologue(back) : back \in BOOLEAN}
                 \cup {Irreducible, LoopVoid, Straight(<<>>),
                       Straight(<<Call("newobj", "gc", <<>>)>>)},
               FullOpts, {PollSimple, PollCond})
    \cup Input({UnrelatedPhi, Straight(<<Call("foo", "void", <<>>)>>)},
               FullOpts, {PollOdd})
    \cup Input(WithAttrs(LoopOnlyProgs
                           \cup {Unreachable, Irreducible, Retransformed,
                                 Straight(<<Call("foo", "void", <<>>)>>)}),
               AttrOpts, {PollCond})
    \cup Input({SelectProg, Cas(TRUE)},
               {Options(TRUE, FALSE, TRUE, FALSE, TRUE, FALSE, TRUE)}, {PollSimple})
    \cup Input({LoopVoid, Prologue(TRUE)},
               {Options(TRUE, FALSE, FALSE, TRUE, FALSE, df, FALSE) : df \in BOOLEAN},
               {PollSimple, PollCond})
    \cup Input(VMProgs, VMOpts, {PollSimple})

-----------------------------------------------------------------------------
(* State machine: PlaceSafepoints::runOnFunction *)

\* the pass is not inside computeGCPtrLiveness
NoLiveness == [Data |-> [LiveIn |-> <<>>, LiveOut |-> <<>>], worklist |-> <<>>]

\* the pass is not inside findBasePointer
NoSearch ==
    [phase |-> "idle", st |-> [states |-> {}, cache |-> <<>>, work |-> <<>>],
     states |-> <<>>, visit |-> {}, progress |-> FALSE]

\* the state the pass starts from: position p, worklist state lv, base
\* search state one of bss
InitAt(p, lv, bss) ==
    /\ \E inp \in Inputs : F = inp.f /\ F0 = inp.f /\ opt = inp.opt /\ poll = inp.poll
    /\ pc = p
    /\ liveness = lv
    /\ search \in bss
    /\ currentBB = EntryBlock(F)
    /\ PollLocations = <<>>
    /\ pollIdx = 1
    /\ polled = {}
    /\ inlined = {}
    /\ ParsePointNeeded = <<>>
    /\ records = <<>>
    /\ idx = 1
    /\ todo = {}
    /\ DVCache = [v \in {} |-> 0]
    /\ holders = <<>>
    /\ live = <<>>
    /\ allocaMap = [v \in {} |-> 0]
    /\ relocations = <<>>
    /\ Fmat = F0
    /\ failed = {}

Init == InitAt("start", NoLiveness, {NoSearch})

-----------------------------------------------------------------------------
(* C. Liveness *)

isNull(v) == v = Null

\* the operands the USE step of computeGCPtrLiveness adds for instruction i
GCOperands(f, i) ==
    {v \in Range(f.inst[i].args) :
        isGCPointerType(TypeOf(f, v)) /\ ~isNull(v) /\ v # Undef}

\* computeGCPtrLiveness(rbegin, rend, LiveTmp): s is the walked range in
\* forward order
RECURSIVE computeGCPtrLivenessRange(_, _, _)
computeGCPtrLivenessRange(f, s, LiveTmp) ==
    IF s = <<>> THEN LiveTmp
    ELSE LET I == s[Len(s)]
         IN computeGCPtrLivenessRange(f, SubSeq(s, 1, Len(s) - 1),
                                      (LiveTmp \ {I}) \cup GCOperands(f, I))

\* computeGCPtrLiveness(F, Data), lines 1682-1691: every block on the
\* worklist, every set empty
LivenessStart(f) ==
    [Data |-> [LiveIn |-> [b \in Blocks(f) |-> {}],
               LiveOut |-> [b \in Blocks(f) |-> {}]],
     worklist |-> f.order]

\* an iteration that never puts a predecessor back on the worklist
LivenessStep_NoRequeue(f, Data, worklist) ==
    LET BB == worklist[Len(worklist)]
        LiveOut == UNION {Data.LiveIn[sb] : sb \in Succs(f, BB)}
    IN [Data |-> [LiveIn |-> [Data.LiveIn EXCEPT ![BB] =
                                 computeGCPtrLivenessRange(f, f.blocks[BB], LiveOut)],
                  LiveOut |-> [Data.LiveOut EXCEPT ![BB] = LiveOut]],
        worklist |-> SubSeq(worklist, 1, Len(worklist) - 1)]

\* lines 1692-1735: one iteration of the loop over the worklist
LivenessStep(f, Data, worklist) ==
    LET BB == worklist[Len(worklist)]
        rest == SubSeq(worklist, 1, Len(worklist) - 1)
        LiveOut == UNION {Data.LiveIn[sb] : sb \in Succs(f, BB)}
    IN IF LiveOut # {} /\ Data.LiveOut[BB] = LiveOut
       THEN [Data |-> Data, worklist |-> rest]
       ELSE LET LiveTmp == computeGCPtrLivenessRange(f, f.blocks[BB], LiveOut)
                D1 == [Data EXCEPT !.LiveOut[BB] = LiveOut]
            IN IF Data.LiveIn[BB] # LiveTmp
               THEN [Data |-> [D1 EXCEPT !.LiveIn[BB] = LiveTmp],
                     worklist |-> IF LiveTmp # {} THEN rest \o SeqOfSet(Preds(f, BB))
                                  ELSE rest]
               ELSE [Data |-> D1, worklist |-> rest]

RECURSIVE LivenessWorklist(_, _)
LivenessWorklist(f, st) ==
    IF st.worklist = <<>> THEN st.Data
    ELSE LivenessWorklist(f, LivenessStep(f, st.Data, st.worklist))

\* computeGCPtrLiveness(F, Data)
computeGCPtrLiveness(f) == LivenessWorklist(f, LivenessStart(f))

\* the walk runs from the end of the block down to inst, inst included
findLiveSetAtInst(f, inst, Data) ==
    LET BB == BlockOf(f, inst)
        blk == f.blocks[BB]
    IN computeGCPtrLivenessRange(f, SubSeq(blk, PosOf(f, inst), Len(blk)),
                                 Data.LiveOut[BB]) \ {inst}

\* Blocks entered on a path that leaves the block of term and never passes
\* the definition def
RECURSIVE EnteredNotVia(_, _, _, _)
EnteredNotVia(f, def, seen, frontier) ==
    IF frontier = {} THEN seen
    ELSE LET open == {b \in frontier : ~(IsInstId(def) /\ def \in Range(f.blocks[b]))}
             nxt == (UNION {Succs(f, b) : b \in open}) \ seen
         IN EnteredNotVia(f, def, seen \cup nxt, nxt)

\* isPotentiallyReachableNotViaDef (Analysis/CFG): some path from term to
\* the use does not pass the definition; a phi uses its operand at the end
\* of the incoming block
isPotentiallyReachableNotViaDef(f, term, use, def) ==
    LET bt == BlockOf(f, term)
        first == Succs(f, bt)
        entered == EnteredNotVia(f, def, first, first)
        defIn(b) == IsInstId(def) /\ def \in Range(f.blocks[b])
        endReached(b) ==
            \/ b = bt /\ ~(defIn(b) /\ PosOf(f, def) >= PosOf(f, term))
            \/ b \in entered /\ ~defIn(b)
        bu == BlockOf(f, use)
    IN IF f.inst[use].op = "phi"
       THEN \E k \in DOMAIN f.inst[use].args :
                f.inst[use].args[k] = def /\ endReached(f.inst[use].blks[k])
       ELSE \/ bu = bt /\ PosOf(f, use) >= PosOf(f, term)
            \/ bu \in entered /\ ~(defIn(bu) /\ PosOf(f, def) < PosOf(f, use))

isLiveAtSafepoint(f, term, use, def) == isPotentiallyReachableNotViaDef(f, term, use, def)

\* findLiveGCValuesAtInst
findLiveGCValuesAtInst(f, D, term) ==
    LET pred == BlockOf(f, term)
        liveArgs == {a \in DOMAIN f.argty :
                        isGCPointerType(f.argty[a])
                        /\ \E u \in Users(f, a) : isLiveAtSafepoint(f, term, u, a)}
        cand == {i \in Insts(f) :
                    /\ BlockOf(f, i) \in D[pred]
                    /\ ~(BlockOf(f, i) = pred /\ PosOf(f, i) >= PosOf(f, term))
                    /\ isGCPointerType(f.inst[i].ty)}
    IN liveArgs \cup {i \in cand : \E u \in Users(f, i) : isLiveAtSafepoint(f, term, u, i)}

\* analyzeParsePointLiveness
analyzeParsePointLiveness(f, D, inst) ==
    IF opt.DataflowLiveness THEN findLiveSetAtInst(f, inst, computeGCPtrLiveness(f))
    ELSE findLiveGCValuesAtInst(f, D, inst)

-----------------------------------------------------------------------------
(* D. Base pointers *)

RECURSIVE stripPointerCasts(_, _)
stripPointerCasts(f, v) ==
    IF IsInstId(v) /\ f.inst[v].op = "bitcast"
    THEN stripPointerCasts(f, f.inst[v].args[1])
    ELSE v

isCastInst(f, v) == IsInstId(v) /\ f.inst[v].op \in {"bitcast", "inttoptr"}

\* a merge is taken to have the base of its first input
RECURSIVE findBaseDefiningValue_FirstInput(_, _, _)
findBaseDefiningValue_FirstInput(f, I, af) ==
    IF IsArg(I) \/ I = Undef \/ I = Null THEN I
    ELSE LET r == f.inst[I]
         IN CASE r.op \in {"bitcast", "gep", "phi"} ->
                   findBaseDefiningValue_FirstInput(f, r.args[1], af)
              [] r.op = "select" -> findBaseDefiningValue_FirstInput(f, r.args[2], af)
              [] r.op \in {"cmpxchg", "atomicrmw"} -> r.args[1]
              [] OTHER -> I

\* NoValue stands for the llvm_unreachable / assert(false) exits
RECURSIVE findBaseDefiningValue(_, _, _)
findBaseDefiningValue(f, I, af) ==
    IF IsArg(I) \/ I = Undef \/ I = Null THEN I
    ELSE LET r == f.inst[I]
         IN CASE r.op \in {"bitcast", "inttoptr"} ->
                   LET def == stripPointerCasts(f, I)
                   IN IF isCastInst(f, def)
                      THEN (IF f.inst[def].md \/ af THEN def ELSE NoValue)
                      ELSE findBaseDefiningValue(f, def, af)
              [] r.op = "gep" -> findBaseDefiningValue(f, r.args[1], af)
              [] r.op = "call" ->
                   IF r.callee \in {"llvm.statepoint", "llvm.gc.result",
                                    "llvm.gc.relocate", "llvm.gcroot"}
                   THEN NoValue ELSE I
              [] r.op = "invoke" -> I
              [] r.op \in {"cmpxchg", "atomicrmw"} -> r.args[1]
              [] r.op \in {"load", "alloca", "extractvalue", "select", "phi"} -> I
              [] OTHER -> NoValue

\* the cache after the call; the returned value is cache[I]
findBaseDefiningValueCached(f, cache, I, af) ==
    IF I \in DOMAIN cache THEN cache
    ELSE cache @@ (I :> findBaseDefiningValue(f, I, af))

\* findBaseOrBDV, lines 1949-1954, on the cache c that holds an entry for I
lookupBaseOrBDV(c, I) ==
    [cache |-> c, v |-> IF c[I] \in DOMAIN c THEN c[c[I]] ELSE c[I]]

findBaseOrBDV(f, cache, I, af) ==
    lookupBaseOrBDV(findBaseDefiningValueCached(f, cache, I, af), I)

isKnownBaseResult(f, v) ==
    IF ~(IsInstId(v) /\ f.inst[v].op \in {"phi", "select"}) THEN TRUE
    ELSE f.inst[v].md

PhiState(status, base) == [status |-> status, base |-> base]

\* the left state wins over everything but Unknown
pureMeet_KeepLeft(stateA, stateB) ==
    IF stateA.status = "Unknown" THEN stateB ELSE stateA

pureMeet(stateA, stateB) ==
    CASE stateA.status = "Unknown" -> stateB
      [] stateA.status = "Base" ->
            IF stateB.status = "Unknown" THEN stateA
            ELSE IF stateB.status = "Base" /\ stateA.base = stateB.base THEN stateA
            ELSE PhiState("Conflict", NoValue)
      [] OTHER -> stateA

getStateForBDV(f, states, baseValue) ==
    IF isKnownBaseResult(f, baseValue) THEN PhiState("Base", baseValue)
    ELSE states[baseValue]

\* the values a merge instruction selects from
Incoming(f, v) ==
    IF f.inst[v].op = "phi" THEN f.inst[v].args
    ELSE <<f.inst[v].args[2], f.inst[v].args[3]>>

\* findBasePointer, lines 2153-2191: st = [states, cache, work]
\* lines 2170-2187: r is what findBaseOrBDV gave for one incoming value
ScanOne(f, st, r) ==
    LET new == ~isKnownBaseResult(f, r.v) /\ r.v \notin st.states
    IN [states |-> IF new THEN st.states \cup {r.v} ELSE st.states,
        cache |-> r.cache,
        work |-> IF new THEN Append(st.work, r.v) ELSE st.work]

RECURSIVE ScanIncoming(_, _, _, _)
ScanIncoming(f, af, st, ins) ==
    IF ins = <<>> THEN st
    ELSE ScanIncoming(f, af,
                      ScanOne(f, st, findBaseOrBDV(f, st.cache, Head(ins), af)),
                      Tail(ins))

\* the incoming values of the next collected merge are scanned
CollectStep(f, af, st) ==
    ScanIncoming(f, af, [st EXCEPT !.work = Tail(@)], Incoming(f, Head(st.work)))

RECURSIVE CollectStates(_, _, _)
CollectStates(f, af, st) ==
    IF st.work = <<>> THEN st ELSE CollectStates(f, af, CollectStep(f, af, st))

\* a meet that looks at no input
meetWith_NoInputs(f, states, cache, af, ins, currentResult) == currentResult

\* MeetPhiStates::meetWith over the inputs of one merge
RECURSIVE meetWith(_, _, _, _, _, _)
meetWith(f, states, cache, af, ins, currentResult) ==
    IF ins = <<>> THEN currentResult
    ELSE meetWith(f, states, cache, af, Tail(ins),
            pureMeet(getStateForBDV(f, states, findBaseOrBDV(f, cache, Head(ins), af).v),
                     currentResult))

\* findBasePointer, lines 2214-2233: the state of the merge v is set to the
\* meet of its inputs
MeetOne(f, cache, af, states, v) ==
    [states EXCEPT ![v] = meetWith(f, states, cache, af, Incoming(f, v),
                                   PhiState("Unknown", NoValue))]

\* findBasePointer, lines 2213-2235: one pass over the states map
RECURSIVE MeetRound(_, _, _, _, _)
MeetRound(f, cache, af, states, vs) ==
    IF vs = <<>> THEN states
    ELSE MeetRound(f, cache, af, MeetOne(f, cache, af, states, Head(vs)), Tail(vs))

\* findBasePointer, lines 2208-2239
RECURSIVE MeetFixpoint(_, _, _, _)
MeetFixpoint(f, cache, af, states) ==
    LET s2 == MeetRound(f, cache, af, states, SeqOfSet(DOMAIN states))
    IN IF s2 = states THEN states ELSE MeetFixpoint(f, cache, af, s2)

\* meetWith, lines 2062-2064: the assertion holds at every step over ins
RECURSIVE meetCommutes(_, _, _, _, _, _)
meetCommutes(f, states, cache, af, ins, currentResult) ==
    IF ins = <<>> THEN TRUE
    ELSE /\ pureMeet(getStateForBDV(f, states, findBaseOrBDV(f, cache, Head(ins), af).v),
                     currentResult)
            = pureMeet(currentResult,
                       getStateForBDV(f, states, findBaseOrBDV(f, cache, Head(ins), af).v))
         /\ meetCommutes(f, states, cache, af, Tail(ins),
               pureMeet(getStateForBDV(f, states, findBaseOrBDV(f, cache, Head(ins), af).v),
                        currentResult))

\* the assertion of meetWith over one pass over the states map
RECURSIVE RoundCommutes(_, _, _, _, _)
RoundCommutes(f, cache, af, states, vs) ==
    IF vs = <<>> THEN TRUE
    ELSE /\ meetCommutes(f, states, cache, af, Incoming(f, Head(vs)),
                         PhiState("Unknown", NoValue))
         /\ RoundCommutes(f, cache, af,
               [states EXCEPT ![Head(vs)] =
                   meetWith(f, states, cache, af, Incoming(f, Head(vs)),
                            PhiState("Unknown", NoValue))],
               Tail(vs))

\* the assertion of meetWith over the whole loop of lines 2208-2239
RECURSIVE FixpointCommutes(_, _, _, _)
FixpointCommutes(f, cache, af, states) ==
    /\ RoundCommutes(f, cache, af, states, SeqOfSet(DOMAIN states))
    /\ \/ MeetRound(f, cache, af, states, SeqOfSet(DOMAIN states)) = states
       \/ FixpointCommutes(f, cache, af,
                           MeetRound(f, cache, af, states, SeqOfSet(DOMAIN states)))

\* the assertion of meetWith over findBasePointer, d what findBaseOrBDV gave
MeetAssertsFrom(f, af, d, c0) ==
    \/ isKnownBaseResult(f, d.v)
    \/ FixpointCommutes(f, c0.cache, af,
                        [v \in c0.states |-> PhiState("Unknown", NoValue)])

MeetAssertsHold(f, cache, I, af) ==
    \/ isKnownBaseResult(f, findBaseOrBDV(f, cache, I, af).v)
    \/ MeetAssertsFrom(f, af, findBaseOrBDV(f, cache, I, af),
          CollectStates(f, af,
             [states |-> {findBaseOrBDV(f, cache, I, af).v},
              cache |-> findBaseOrBDV(f, cache, I, af).cache,
              work |-> <<findBaseOrBDV(f, cache, I, af).v>>]))

\* findBasePointer, lines 2251-2282: st = [f, states, defs]
RECURSIVE InsertBasePhis(_, _)
InsertBasePhis(st, vs) ==
    IF vs = <<>> THEN st
    ELSE LET v == Head(vs)
             r == st.f.inst[v]
             new == IF r.op = "phi"
                    THEN [Phi(r.ty, <<>>, <<>>) EXCEPT !.md = TRUE]
                    ELSE [MkInst("select", r.ty, <<r.args[1], Undef, Undef>>, <<>>, "")
                             EXCEPT !.md = TRUE]
         IN IF st.states[v].status = "Conflict"
            THEN InsertBasePhis(
                    [f |-> AddBefore(st.f, v, new),
                     states |-> [st.states EXCEPT ![v] = PhiState("Conflict", st.f.next)],
                     defs |-> st.defs \cup {st.f.next}],
                    Tail(vs))
            ELSE InsertBasePhis(st, Tail(vs))

\* the base defining value is taken for the base
BaseOfInput_BDV(st, b0) == b0

\* findBasePointer, lines 2295-2315 and 2321-2340: input k of the merge v
\* the base of an incoming value whose findBaseOrBDV is b0
BaseOfInput(st, b0) ==
    IF isKnownBaseResult(st.f, b0) THEN b0 ELSE st.states[b0].base

\* input k of the merge v gets base as input k of the base merge
SetBaseInput(st, v, k, base) ==
    LET f == st.f
        isPhi == f.inst[v].op = "phi"
        basemerge == st.states[v].base
        needCast == TypeOf(f, base) # f.inst[basemerge].ty
        cast == MkInst("bitcast", f.inst[basemerge].ty, <<base>>, <<>>, "")
        f1 == IF ~needCast THEN f
              ELSE IF isPhi THEN AddBefore(f, Terminator(f, f.inst[v].blks[k]), cast)
              ELSE AddBefore(f, basemerge, cast)
        b1 == IF needCast THEN f.next ELSE base
        f2 == IF isPhi
              THEN [f1 EXCEPT !.inst[basemerge].args = Append(@, b1),
                              !.inst[basemerge].blks = Append(@, f.inst[v].blks[k])]
              ELSE [f1 EXCEPT !.inst[basemerge].args[k + 1] = b1]
    IN [st EXCEPT !.f = f2, !.defs = IF needCast THEN @ \cup {f.next} ELSE @]

FixupInput(st, cache, af, v, k) ==
    SetBaseInput(st, v, k,
       BaseOfInput(st, findBaseOrBDV(st.f, cache, Incoming(st.f, v)[k], af).v))

RECURSIVE FixupInputs(_, _, _, _, _)
FixupInputs(st, cache, af, v, k) ==
    IF k > Len(Incoming(st.f, v)) THEN st
    ELSE FixupInputs(FixupInput(st, cache, af, v, k), cache, af, v, k + 1)

\* findBasePointer, lines 2284-2345
RECURSIVE FixupBasePhis(_, _, _, _)
FixupBasePhis(st, cache, af, vs) ==
    IF vs = <<>> THEN st
    ELSE FixupBasePhis(IF st.states[Head(vs)].status = "Conflict"
                       THEN FixupInputs(st, cache, af, Head(vs), 1)
                       ELSE st,
                       cache, af, Tail(vs))

\* the bases are returned and not kept
CacheBases_Forget(def, c0, s2) ==
    [f |-> s2.f, cache |-> c0.cache, defs |-> s2.defs, base |-> s2.states[def].base]

\* findBasePointer, lines 2351-2378: the bases go into the cache
CacheBases(def, c0, s2) ==
    LET c1 == [v \in DOMAIN c0.cache \cup c0.states |->
                  IF v \in c0.states THEN s2.states[v].base ELSE c0.cache[v]]
    IN [f |-> s2.f, cache |-> c1, defs |-> s2.defs, base |-> c1[def]]

\* findBasePointer, lines 2193-2345, from the collected states c0
ResolveMerges(f, newInsertedDefs, af, def, c0) ==
    CacheBases(def, c0,
       FixupBasePhis(
          InsertBasePhis(
             [f |-> f,
              states |-> MeetFixpoint(f, c0.cache, af,
                            [v \in c0.states |-> PhiState("Unknown", NoValue)]),
              defs |-> newInsertedDefs],
             SeqOfSet(c0.states)),
          c0.cache, af, SeqOfSet(c0.states)))

\* findBasePointer, lines 2124-2128 and on: d is what findBaseOrBDV gave for I
findBasePointerFrom(f, newInsertedDefs, af, d) ==
    IF isKnownBaseResult(f, d.v)
    THEN [f |-> f, cache |-> d.cache, defs |-> newInsertedDefs, base |-> d.v]
    ELSE ResolveMerges(f, newInsertedDefs, af, d.v,
            CollectStates(f, af, [states |-> {d.v}, cache |-> d.cache, work |-> <<d.v>>]))

\* findBasePointer: the function, the cache and the inserted definitions
\* after the call, and the base it returns
findBasePointer(f, cache, newInsertedDefs, I, af) ==
    findBasePointerFrom(f, newInsertedDefs, af, findBaseOrBDV(f, cache, I, af))

\* addBasesAsLiveValues: the live set and the base map after the call
addBasesAsLiveValues(liveset, base_pairs) ==
    LET missing == {base_pairs[L] : L \in liveset} \ liveset
    IN [liveset |-> liveset \cup missing,
        base_pairs |-> [v \in DOMAIN base_pairs \cup missing |->
                           IF v \in missing THEN v ELSE base_pairs[v]]]


-----------------------------------------------------------------------------
(* E. Liveness fixup and statepoint materialization *)

MapPut(m, S) == [v \in DOMAIN m \cup S |-> IF v \in DOMAIN m THEN m[v] ELSE v]

\* fixupLiveness(GCPtrLivenessData&, ...): the record after the call and
\* the assertions that did not hold
fixupLivenessDataflow(f, Revised, inst, allInsertedDefs, info) ==
    LET updated == findLiveSetAtInst(f, inst, Revised)
        bp1 == MapPut(info.base_pairs, updated \cap allInsertedDefs)
        bases == Range(bp1)
        bp2 == MapPut(bp1, bases)
        selfOk == \A V \in (updated \cap allInsertedDefs) \cup bases :
                      V \in DOMAIN info.base_pairs => info.base_pairs[V] = V
        stable == updated \subseteq info.liveset \cup bases \cup allInsertedDefs
        onlyBases == DOMAIN bp2 \subseteq updated \cup Range(bp2)
    IN [info |-> [info EXCEPT !.liveset = updated \cup Range(bp2), !.base_pairs = bp2],
        failed |-> (IF selfOk THEN {} ELSE {"base maps to itself"})
                   \cup (IF stable THEN {} ELSE {"liveness analysis not stable"})
                   \cup (IF onlyBases THEN {} ELSE {"only expecting to hack base pointers"})]

\* only the bases are added, the inserted definitions are not looked at
fixupLivenessLocal_BasesOnly(f, D, inst, allInsertedDefs, info) ==
    LET a == addBasesAsLiveValues(info.liveset \ allInsertedDefs,
                [v \in DOMAIN info.base_pairs |->
                    IF info.base_pairs[v] \in allInsertedDefs THEN v
                    ELSE info.base_pairs[v]])
    IN [info |-> [info EXCEPT !.liveset = a.liveset, !.base_pairs = a.base_pairs],
        failed |-> {}]

\* fixupLiveness(DominatorTree&, ...)
fixupLivenessLocal(f, D, inst, allInsertedDefs, info) ==
    LET a == addBasesAsLiveValues(info.liveset, info.base_pairs)
        added == {newDef \in allInsertedDefs \ a.liveset :
                     /\ InstDominates(f, D, newDef, inst)
                     /\ \E use \in Users(f, newDef) : isLiveAtSafepoint(f, inst, use, newDef)}
        noEntry == \E L \in info.liveset :
                      info.base_pairs[L] \notin info.liveset
                      /\ info.base_pairs[L] \in DOMAIN info.base_pairs
    IN [info |-> [info EXCEPT !.liveset = a.liveset \cup added,
                              !.base_pairs = [v \in DOMAIN a.base_pairs \cup added |->
                                  IF v \in added THEN v ELSE a.base_pairs[v]]],
        failed |-> IF noEntry THEN {"base has no entry of its own"} ELSE {}]

\* stablize_order: sorted by name; the identifiers stand for the names
stablize_order(liveset) == SeqOfSet(liveset)

find_index(livevec, val) == IndexOf(livevec, val) - 1

\* operands of a statepoint before the call arguments: target, #args,
\* flags and the five placeholders of lines 2552-2556
StatepointHeader == 8

\* the operands of a statepoint between the header and the live values:
\* the call arguments, two per stack element and per local, one per monitor
NumBeforeLive(f, token) ==
    LET m == f.inst[token].meta
    IN m[1] + 2 * m[5] + 2 * m[6] + m[7]

gc_args(f, token) ==
    SubSeq(f.inst[token].args, NumBeforeLive(f, token) + 1, Len(f.inst[token].args))

\* operand k (counted from 0, the target) of a statepoint
StatepointOperand(f, token, k) == f.inst[token].args[k - StatepointHeader + 1]

derivedPtr(f, rel) == StatepointOperand(f, f.inst[rel].args[1], f.inst[rel].meta[2])
basePtr(f, rel) == StatepointOperand(f, f.inst[rel].args[1], f.inst[rel].meta[1])

RelocatesOf(f, token) == {u \in Users(f, token) : isGCRelocate(f, u)}

\* the indices of the relocates count from the first live value
RECURSIVE EmitRelocates_FromLiveRegion(_, _, _, _, _, _)
EmitRelocates_FromLiveRegion(f, IP, token, basePtrs, liveVariables, i) ==
    IF i > Len(liveVariables) THEN f
    ELSE LET reloc == [Call("llvm.gc.relocate", TypeOf(f, liveVariables[i]), <<token>>)
                         EXCEPT !.meta = <<find_index(liveVariables, basePtrs[i]),
                                           find_index(liveVariables, liveVariables[i])>>]
         IN EmitRelocates_FromLiveRegion(AddBefore(f, IP, reloc), IP, token, basePtrs,
                                         liveVariables, i + 1)

RECURSIVE EmitRelocates(_, _, _, _, _, _)
EmitRelocates(f, IP, token, basePtrs, liveVariables, i) ==
    IF i > Len(liveVariables) THEN f
    ELSE LET live_start == StatepointHeader + Len(f.inst[token].args) - Len(liveVariables)
             reloc == [Call("llvm.gc.relocate", TypeOf(f, liveVariables[i]), <<token>>)
                         EXCEPT !.meta = <<live_start + find_index(liveVariables, basePtrs[i]),
                                           live_start + find_index(liveVariables, liveVariables[i])>>]
         IN EmitRelocates(AddBefore(f, IP, reloc), IP, token, basePtrs, liveVariables, i + 1)

\* line 2498: the first argument of the call is a VM state.  A call without
\* arguments has its callee where the first argument would be
isCallSiteHoldingVMState(f, CS) ==
    f.inst[CS].args # <<>> /\ isJVMState(f, f.inst[CS].args[1])

\* the values of the VM state without their type tags
VMStateOperands_ValuesOnly(f, jvmStateCall) ==
    IF jvmStateCall = NoValue THEN <<>> ELSE f.inst[jvmStateCall].args

\* lines 2573-2591: a type tag and the value of every stack element and of
\* every local, then the monitors
VMStateOperands(f, jvmStateCall) ==
    IF jvmStateCall = NoValue THEN <<>>
    ELSE Flatten([i \in 1..numStackElements(f, jvmStateCall) |->
                    <<TypeTag, stackElementAt(f, jvmStateCall, i)>>])
         \o Flatten([i \in 1..numLocals(f, jvmStateCall) |->
                       <<TypeTag, localAt(f, jvmStateCall, i)>>])
         \o [i \in 1..numMonitors(f, jvmStateCall) |-> monitorAt(f, jvmStateCall, i)]

\* lines 2526-2596: the statepoint call.  meta keeps operands 1 to 7 (#args,
\* flags, caller depth, bci, #stack, #locals, #monitors), target operand 0
\* (by the name of the callee, also when the operand is the bitcast of line
\* 2531), args the operands from 8 on
StatepointCall(f, CS, jvmStateCall, liveVariables) ==
    LET r == f.inst[CS]
        callArgs == IF isCallSiteHoldingVMState(f, CS) THEN Tail(r.args) ELSE r.args
    IN [Call("llvm.statepoint", "token",
             callArgs \o VMStateOperands(f, jvmStateCall) \o liveVariables)
          EXCEPT !.meta = IF jvmStateCall = NoValue
                          THEN <<Len(callArgs), 0, 0, -1, 0, 0, 0>>
                          ELSE <<Len(callArgs), 0, 0, bci(f, jvmStateCall),
                                 numStackElements(f, jvmStateCall),
                                 numLocals(f, jvmStateCall),
                                 numMonitors(f, jvmStateCall)>>,
                 !.target = r.callee]

\* lines 2531 and 2568: a call that holds the VM state gets a bitcast of its
\* callee and an anchor of the state in front of it
AnchorHeldState(f, CS, jvmStateCall) ==
    IF isCallSiteHoldingVMState(f, CS)
    THEN AddBefore(AddBefore(f, CS, MkInst("bitcast", "fn", <<>>, <<>>, f.inst[CS].callee)),
                   CS, MkInst("store", "void", <<jvmStateCall, JVMStateAnchor>>, <<>>, ""))
    ELSE f

\* one relocate fewer than live values
CreateSafepoint_DropLast(f, CS, jvmStateCall, basePtrs, liveVariables) ==
    LET f0 == AnchorHeldState(f, CS, jvmStateCall)
        token == f0.next
        f1 == AddBefore(f0, CS, StatepointCall(f, CS, jvmStateCall, liveVariables))
        IP == f1.blocks[BlockOf(f1, CS)][PosOf(f1, CS) + 1]
        f3 == EmitRelocates(f1, IP, token, basePtrs,
                            SubSeq(liveVariables, 1, Len(liveVariables) - 1), 1)
    IN [f |-> f3, result |-> NoValue, safepoint |-> <<token, f3.next - 1>>]

\* CreateSafepoint for a call: the function after it, the gc_result and
\* the bounds of the sequence
CreateSafepoint(f, CS, jvmStateCall, basePtrs, liveVariables) ==
    LET r == f.inst[CS]
        f0 == AnchorHeldState(f, CS, jvmStateCall)
        token == f0.next
        f1 == AddBefore(f0, CS, StatepointCall(f, CS, jvmStateCall, liveVariables))
        IP == f1.blocks[BlockOf(f1, CS)][PosOf(f1, CS) + 1]
        hasResult == r.ty # "void" /\ Users(f1, CS) # {}
        f2 == IF hasResult THEN AddBefore(f1, IP, Call("llvm.gc.result", r.ty, <<token>>))
              ELSE f1
        gc_result == IF hasResult THEN f1.next ELSE NoValue
        f3 == EmitRelocates(f2, IP, token, basePtrs, liveVariables, 1)
    IN [f |-> f3, result |-> gc_result, safepoint |-> <<token, f3.next - 1>>]

\* InsertSafepoint without BaseRewriteOnly
InsertSafepoint(f, CS, vm_state, info) ==
    LET livevec == stablize_order(info.liveset)
        basevec == [k \in DOMAIN livevec |-> info.base_pairs[livevec[k]]]
    IN CreateSafepoint(f, CS, vm_state, basevec, livevec)

\* the immediate dominator of block b, or NoValue for the entry block
IDom(D, b) ==
    IF D[b] = {b} THEN NoValue
    ELSE CHOOSE d \in D[b] \ {b} : D[d] = D[b] \ {b}

\* findVMState: the state anchored, or held by a call, at or before position
\* k of block b, else the one at the end of the closest dominator; NoValue
\* when there is none
RECURSIVE findVMStateFrom(_, _, _, _)
findVMStateFrom(f, D, b, k) ==
    IF k = 0
    THEN (IF IDom(D, b) = NoValue THEN NoValue
          ELSE findVMStateFrom(f, D, IDom(D, b), Len(f.blocks[IDom(D, b)])))
    ELSE LET i == f.blocks[b][k]
         IN IF isJVMStateAnchorInstruction(f, i) THEN f.inst[i].args[1]
            ELSE IF f.inst[i].op = "call" /\ isCallSiteHoldingVMState(f, i)
                 THEN f.inst[i].args[1]
            ELSE findVMStateFrom(f, D, b, k - 1)

findVMState(f, D, term) == findVMStateFrom(f, D, BlockOf(f, term), PosOf(f, term))


-----------------------------------------------------------------------------
(* F. relocationViaAlloca and the promotion of the slots *)

Store(val, slot) == MkInst("store", "void", <<val, slot>>, <<>>, "")
Load(ty, slot) == MkInst("load", ty, <<slot>>, <<>>, "")

\* findRelocateValuesAtSP for one def: the relocate of def at the
\* statepoint, or NoValue
findRelocateValuesAtSP(f, statepoint, def) ==
    LET rs == {u \in RelocatesOf(f, statepoint) : derivedPtr(f, u) = def}
    IN IF rs = {} THEN NoValue ELSE CHOOSE u \in rs : \A w \in rs : w <= u

\* every store of a relocate is put right behind the token
RECURSIVE StoreRelocations_BehindToken(_, _, _, _)
StoreRelocations_BehindToken(f, slots, info, defs) ==
    IF defs = <<>> THEN f
    ELSE LET def == Head(defs)
             relocatedValue == findRelocateValuesAtSP(f, info.safepoint[1], def)
             f1 == IF relocatedValue # NoValue
                   THEN AddAfter(f, info.safepoint[1], Store(relocatedValue, slots[def]))
                   ELSE f
         IN StoreRelocations_BehindToken(f1, slots, info, Tail(defs))

\* the slot of the result of the site is set to null as well
RECURSIVE StoreRelocations_NullForResult(_, _, _, _)
StoreRelocations_NullForResult(f, slots, info, defs) ==
    IF defs = <<>> THEN f
    ELSE LET def == Head(defs)
             relocatedValue == findRelocateValuesAtSP(f, info.safepoint[1], def)
             f1 == IF relocatedValue # NoValue
                   THEN AddAfter(f, relocatedValue, Store(relocatedValue, slots[def]))
                   ELSE AddAfter(f, info.safepoint[2], Store(Null, slots[def]))
         IN StoreRelocations_NullForResult(f1, slots, info, Tail(defs))

\* relocationViaAlloca, lines 2793-2812
RECURSIVE StoreRelocations(_, _, _, _)
StoreRelocations(f, slots, info, defs) ==
    IF defs = <<>> THEN f
    ELSE LET def == Head(defs)
             relocatedValue == findRelocateValuesAtSP(f, info.safepoint[1], def)
             f1 == IF relocatedValue # NoValue
                   THEN AddAfter(f, relocatedValue, Store(relocatedValue, slots[def]))
                   ELSE IF def = info.result THEN f
                   ELSE AddAfter(f, info.safepoint[2], Store(Null, slots[def]))
         IN StoreRelocations(f1, slots, info, Tail(defs))

\* relocationViaAlloca, lines 2832-2845: the loads for one user of def
RECURSIVE LoadPhiInputs(_, _, _, _, _)
LoadPhiInputs(f, slot, def, phi, i) ==
    IF i > Len(f.inst[phi].args) THEN f
    ELSE IF f.inst[phi].args[i] # def THEN LoadPhiInputs(f, slot, def, phi, i + 1)
    ELSE LET f1 == AddBefore(f, Terminator(f, f.inst[phi].blks[i]),
                             Load(f.inst[slot].ty, slot))
         IN LoadPhiInputs([f1 EXCEPT !.inst[phi].args[i] = f.next], slot, def, phi, i + 1)

\* only the inputs of phis are redirected to the slot
LoadForUse_PhiOnly(f, slot, def, use) ==
    IF f.inst[use].op = "phi" THEN LoadPhiInputs(f, slot, def, use, 1) ELSE f

\* the inputs of phis are left alone
LoadForUse_SkipPhi(f, slot, def, use) ==
    IF f.inst[use].op = "phi" THEN f
    ELSE LET f1 == AddBefore(f, use, Load(f.inst[slot].ty, slot))
         IN [f1 EXCEPT !.inst[use].args = ReplaceIn(@, def, f.next)]

LoadForUse(f, slot, def, use) ==
    IF f.inst[use].op = "phi" THEN LoadPhiInputs(f, slot, def, use, 1)
    ELSE LET f1 == AddBefore(f, use, Load(f.inst[slot].ty, slot))
         IN [f1 EXCEPT !.inst[use].args = ReplaceIn(@, def, f.next)]

RECURSIVE LoadForUses(_, _, _, _)
LoadForUses(f, slot, def, uses) ==
    IF uses = <<>> THEN f
    ELSE LoadForUses(LoadForUse(f, slot, def, Head(uses)), slot, def, Tail(uses))

\* relocationViaAlloca, lines 2815-2858 for one entry of allocaMap
rewriteUsesOfDef(f, slot, def) ==
    LET f1 == LoadForUses(f, slot, def, SeqOfSet(Users(f, def)))
    IN AddAfter(f1, IF IsInstId(def) THEN def ELSE slot, Store(def, slot))

\* the slot of the first tracked value is not handed to the promotion
PromotableAllocas_SkipFirst(slots, lv) ==
    {slots[lv[k]] : k \in 2..Len(lv)}

\* relocationViaAlloca, lines 2759-2768: the slots handed to PromoteMemToReg
PromotableAllocas(slots, lv) == {slots[lv[k]] : k \in DOMAIN lv}

\* PromoteMemToReg (Transforms/Utils/PromoteMemoryToRegister)
StoresTo(f, a) == {i \in Insts(f) : f.inst[i].op = "store" /\ f.inst[i].args[2] = a}
LoadsFrom(f, a) == {i \in Insts(f) : f.inst[i].op = "load" /\ f.inst[i].args = <<a>>}

DomFrontier(f, D, X) ==
    {Y \in Blocks(f) : \E P \in Preds(f, Y) : X \in D[P] /\ ~(X \in D[Y] /\ X # Y)}

RECURSIVE IDF(_, _, _)
IDF(f, D, S) ==
    LET S2 == S \cup UNION {DomFrontier(f, D, X) : X \in S}
    IN IF S2 = S THEN S ELSE IDF(f, D, S2)

\* blocks on whose entry the slot holds a value that is still loaded
RECURSIVE LiveInBlocks(_, _, _)
LiveInBlocks(f, a, L) ==
    LET hasStore(b) == \E i \in StoresTo(f, a) : BlockOf(f, i) = b
        L2 == L \cup {p \in Blocks(f) : ~hasStore(p) /\ Succs(f, p) \cap L # {}}
    IN IF L2 = L THEN L ELSE LiveInBlocks(f, a, L2)

UpwardExposed(f, a) ==
    {b \in Blocks(f) : \E l \in LoadsFrom(f, a) :
        /\ BlockOf(f, l) = b
        /\ \A st \in StoresTo(f, a) : BlockOf(f, st) = b => PosOf(f, st) > PosOf(f, l)}

PhiBlocks(f, D, a) ==
    LET defBlocks == {BlockOf(f, i) : i \in StoresTo(f, a)}
        idf == UNION {DomFrontier(f, D, X) : X \in IDF(f, D, defBlocks)}
    IN idf \cap LiveInBlocks(f, a, UpwardExposed(f, a))

idom(f, D, b) ==
    CHOOSE d \in D[b] \ {b} : \A e \in D[b] \ {b} : e \in D[d]

RECURSIVE ReachingIn(_, _, _, _, _)
RECURSIVE ReachingAt(_, _, _, _, _, _)
\* the value the slot a holds on entry to block b
ReachingIn(f, D, pairs, a, b) ==
    IF <<a, b>> \in Range(pairs) THEN f.next + IndexOf(pairs, <<a, b>>) - 1
    ELSE IF b = EntryBlock(f) THEN Undef
    ELSE ReachingAt(f, D, pairs, a, idom(f, D, b), Len(f.blocks[idom(f, D, b)]) + 1)

\* the value the slot a holds before position k of block b
ReachingAt(f, D, pairs, a, b, k) ==
    LET sts == {i \in StoresTo(f, a) : BlockOf(f, i) = b /\ PosOf(f, i) < k}
    IN IF sts = {} THEN ReachingIn(f, D, pairs, a, b)
       ELSE f.inst[CHOOSE i \in sts : \A j \in sts : PosOf(f, j) <= PosOf(f, i)].args[1]

PromoteMemToReg(f, D, allocas) ==
    LET slots == SeqOfSet(allocas)
        pairs == Flatten([n \in DOMAIN slots |->
                     LET bs == SeqOfSet(PhiBlocks(f, D, slots[n]))
                     IN [m \in DOMAIN bs |-> <<slots[n], bs[m]>>]])
        phiId(n) == f.next + n - 1
        isSlotLoad(x) == IsInstId(x) /\ f.inst[x].op = "load"
                         /\ Len(f.inst[x].args) = 1 /\ f.inst[x].args[1] \in allocas
        repl(x) == IF isSlotLoad(x)
                   THEN ReachingAt(f, D, pairs, f.inst[x].args[1], BlockOf(f, x), PosOf(f, x))
                   ELSE x
        dead == allocas \cup {i \in Insts(f) : isSlotLoad(i)}
                  \cup UNION {StoresTo(f, a) : a \in allocas}
        keep == Insts(f) \ dead
        newPhi(n) ==
            LET a == pairs[n][1]
                b == pairs[n][2]
                ps == SeqOfSet(Preds(f, b))
            IN Phi(f.inst[a].ty,
                   [m \in DOMAIN ps |->
                       ReachingAt(f, D, pairs, a, ps[m], Len(f.blocks[ps[m]]) + 1)],
                   ps)
        phisOf(b) == LET ns == SeqOfSet({n \in DOMAIN pairs : pairs[n][2] = b})
                     IN [m \in DOMAIN ns |-> phiId(ns[m])]
    IN [f EXCEPT
          !.inst = [i \in keep \cup {phiId(n) : n \in DOMAIN pairs} |->
                      IF i \in keep
                      THEN [f.inst[i] EXCEPT !.args = [k \in DOMAIN @ |-> repl(@[k])]]
                      ELSE newPhi(i - f.next + 1)],
          !.blocks = [b \in Blocks(f) |-> phisOf(b) \o Filter(f.blocks[b], keep)],
          !.next = f.next + Len(pairs)]


VMStateRequired == ~opt.AllFunctions /\ opt.UseVMState

selVars == <<PollLocations, pollIdx, polled, inlined, ParsePointNeeded>>
siteVars == <<records, idx, todo, DVCache, holders>>
relocVars == <<live, allocaMap, relocations, Fmat>>
loopVars == <<liveness, search, currentBB>>

\* runOnFunction, lines 1017-1021
RemoveUnreachable ==
    /\ pc = "start"
    /\ F' = removeUnreachableBlocks(F)
    /\ pc' = "backedges"
    /\ UNCHANGED <<F0, opt, poll, loopVars, selVars, siteVars, relocVars, failed>>

\* runOnFunction, lines 1036-1050: the loop pass collects the poll locations
FindBackedgePolls ==
    /\ pc = "backedges"
    /\ LET D == Dom(F)
           hs == SeqOfSet(LoopHeaders(F, D))
           locs == IF opt.NoBackedge THEN <<>>
                   ELSE Flatten([k \in DOMAIN hs |-> runOnLoop(F, D, hs[k])])
       IN /\ PollLocations' = locs
          /\ pc' = IF locs = <<>> THEN "entry" ELSE "polls"
    /\ pollIdx' = 1
    /\ UNCHANGED <<F, F0, opt, poll, loopVars, polled, inlined, ParsePointNeeded,
                   siteVars, relocVars, failed>>

\* runOnFunction, lines 1052-1066: one iteration of the loop over PollLocations
InsertBackedgePoll ==
    /\ pc = "polls"
    /\ LET term == PollLocations[pollIdx]
           r == InsertSafepointPoll(F, term, poll)
       IN /\ F' = r.f
          /\ ParsePointNeeded' = ParsePointNeeded \o r.ParsePointsNeeded
          /\ polled' = polled \cup {term}
          /\ inlined' = inlined \cup r.cloned
    /\ pollIdx' = pollIdx + 1
    /\ pc' = IF pollIdx = Len(PollLocations) THEN "entry" ELSE "polls"
    /\ UNCHANGED <<F0, opt, poll, loopVars, PollLocations, siteVars, relocVars, failed>>

\* runOnFunction, lines 1069-1081
InsertEntryPoll ==
    /\ pc = "entry"
    /\ LET term == IF opt.NoEntry THEN NoValue ELSE findLocationForEntrySafepoint(F)
           r == InsertSafepointPoll(F, term, poll)
       IN IF term = NoValue
          THEN UNCHANGED <<F, ParsePointNeeded, polled, inlined>>
          ELSE /\ F' = r.f
               /\ ParsePointNeeded' = ParsePointNeeded \o r.ParsePointsNeeded
               /\ polled' = polled \cup {term}
               /\ inlined' = inlined \cup r.cloned
    /\ pc' = "calls"
    /\ UNCHANGED <<F0, opt, poll, loopVars, PollLocations, pollIdx, siteVars, relocVars, failed>>

\* runOnFunction, lines 1083-1095
FindCallSites ==
    /\ pc = "calls"
    /\ LET Calls == IF opt.NoCall THEN <<>> ELSE findCallSafepoints(F)
       IN ParsePointNeeded' = unique_unsorted(ParsePointNeeded \o Calls)
    /\ pc' = IF VMStateRequired THEN "vmstate" ELSE "liveness"
    /\ idx' = 1
    /\ UNCHANGED <<F, F0, opt, poll, loopVars, PollLocations, pollIdx, polled, inlined,
                   records, todo, DVCache, holders, relocVars, failed>>

RECURSIVE AddVMHolders(_, _, _, _)
AddVMHolders(f, D, sites, k) ==
    IF k > Len(sites) THEN f
    ELSE AddVMHolders(AddAfter(f, sites[k],
                               [f.inst[findVMState(f, D, sites[k])]
                                   EXCEPT !.callee = "__tmp_use"]),
                      D, sites, k + 1)

\* insertParsePoints, lines 787-807: a copy of the VM state of every site,
\* as a call of the use holder right after the site.  The functions handed
\* in have their VM states where they dominate the sites, the form
\* runOnFunction (lines 1097-1103) brings them to before this loop
HoldVMStates ==
    /\ pc = "vmstate"
    /\ IF \E k \in DOMAIN ParsePointNeeded : F.inst[ParsePointNeeded[k]].op # "call"
       THEN /\ pc' = "crashed"
            /\ failed' = failed \cup {"implement invoke here"}
            /\ UNCHANGED <<F, holders>>
       ELSE IF \E k \in DOMAIN ParsePointNeeded :
                   findVMState(F, Dom(F), ParsePointNeeded[k]) = NoValue
       THEN /\ pc' = "crashed"
            /\ failed' = failed \cup {"must find vm state or be scanning c++ source code"}
            /\ UNCHANGED <<F, holders>>
       ELSE /\ F' = AddVMHolders(F, Dom(F), ParsePointNeeded, 1)
            /\ holders' = [k \in 1..Len(ParsePointNeeded) |-> F.next + k - 1]
            /\ pc' = "liveness"
            /\ failed' = failed
    /\ UNCHANGED <<F0, opt, poll, loopVars, selVars, records, idx, todo, DVCache, relocVars>>

\* insertParsePoints, lines 816-825: one iteration of the loop over toUpdate
AnalyzeLiveness ==
    /\ pc = "liveness"
    /\ IF idx > Len(ParsePointNeeded)
       THEN /\ pc' = "bases"
            /\ idx' = 1
            /\ todo' = IF records = <<>> THEN {} ELSE records[1].liveset
            /\ UNCHANGED records
       ELSE /\ records' = Append(records,
                 [liveset |-> analyzeParsePointLiveness(F, Dom(F), ParsePointNeeded[idx]),
                  base_pairs |-> [v \in {} |-> 0],
                  newInsertedDefs |-> {},
                  safepoint |-> <<NoValue, NoValue>>,
                  result |-> NoValue])
            /\ idx' = idx + 1
            /\ UNCHANGED <<pc, todo>>
    /\ UNCHANGED <<F, F0, opt, poll, loopVars, selVars, DVCache, holders, relocVars, failed>>

\* findBasePointers, lines 2388-2399: one iteration of the loop over the live
\* set; the set is ordered by address, so the next value is any value left
ResolveBase ==
    /\ pc = "bases"
    /\ idx <= Len(records)
    /\ todo # {}
    /\ \E ptr \in todo :
       \E r \in {findBasePointer(F, DVCache, records[idx].newInsertedDefs, ptr,
                                 opt.AllFunctions)} :
         LET D == Dom(F)
             dominated == \/ ~IsInstId(r.base) \/ ~IsInstId(ptr)
                          \/ BlockOf(r.f, r.base) \in D[BlockOf(r.f, ptr)]
             unreachable == \E v \in DOMAIN r.cache : r.cache[v] = NoValue
         IN IF unreachable
            THEN /\ pc' = "crashed"
                 /\ failed' = failed \cup {"llvm_unreachable"}
                 /\ UNCHANGED <<F, DVCache, records, todo>>
            ELSE /\ F' = r.f
                 /\ DVCache' = r.cache
                 /\ records' = [records EXCEPT
                                   ![idx].base_pairs = (ptr :> r.base) @@ @,
                                   ![idx].newInsertedDefs = r.defs]
                 /\ todo' = todo \ {ptr}
                 /\ pc' = pc
                 /\ failed' = failed
                        \cup (IF dominated THEN {} ELSE {"base dominates derived"})
                        \cup (IF MeetAssertsHold(F, DVCache, ptr, opt.AllFunctions)
                              THEN {} ELSE {"math is wrong: meet does not commute!"})
                        \cup (IF isGCPointerType(TypeOf(r.f, r.base)) THEN {}
                              ELSE {"base is a gc pointer"})
    /\ UNCHANGED <<F0, opt, poll, loopVars, selVars, idx, holders, relocVars>>

\* insertParsePoints, lines 835-839: the next site, or the end of the loop
NextBaseSite ==
    /\ pc = "bases"
    /\ idx > Len(records) \/ todo = {}
    /\ IF idx >= Len(records)
       THEN pc' = "holders" /\ idx' = 1 /\ todo' = {}
       ELSE pc' = pc /\ idx' = idx + 1 /\ todo' = records[idx + 1].liveset
    /\ UNCHANGED <<F, F0, opt, poll, loopVars, selVars, records, DVCache, holders, relocVars,
                   failed>>

RECURSIVE AddHolders(_, _, _, _)
AddHolders(f, sites, recs, k) ==
    IF k > Len(recs) THEN f
    ELSE LET keys == SeqOfSet(DOMAIN recs[k].base_pairs)
             bases == [n \in DOMAIN keys |-> recs[k].base_pairs[keys[n]]]
         IN AddHolders(AddAfter(f, sites[k], Call("__tmp_use", "void", bases)),
                       sites, recs, k + 1)

\* insertParsePoints, lines 863-880.  The loop stops on the assertion of
\* line 874 at a site that is an invoke
InsertHolders ==
    /\ pc = "holders"
    /\ IF \E k \in DOMAIN records : F.inst[ParsePointNeeded[k]].op # "call"
       THEN /\ pc' = "crashed"
            /\ failed' = failed \cup {"implement invoke here"}
            /\ UNCHANGED <<F, holders, idx>>
       ELSE /\ F' = AddHolders(F, ParsePointNeeded, records, 1)
            /\ holders' = holders \o [k \in 1..Len(records) |-> F.next + k - 1]
            /\ pc' = "fixup"
            /\ idx' = 1
            /\ failed' = failed
    /\ UNCHANGED <<F0, opt, poll, loopVars, selVars, records, todo, DVCache, relocVars>>

allInsertedDefs == UNION {records[k].newInsertedDefs : k \in DOMAIN records}

RECURSIVE EraseAll(_, _)
EraseAll(f, is) == IF is = <<>> THEN f ELSE EraseAll(EraseInst(f, Head(is)), Tail(is))

\* insertParsePoints, lines 885-909: one iteration of the fixup loop; the
\* holders are erased when the loop ends
FixupLiveness ==
    /\ pc = "fixup"
    /\ IF idx > Len(records)
       THEN /\ F' = EraseAll(F, holders)
            /\ holders' = <<>>
            /\ pc' = "insert"
            /\ idx' = 1
            /\ UNCHANGED <<records, failed>>
       ELSE LET r == IF opt.DataflowLiveness
                     THEN fixupLivenessDataflow(F, computeGCPtrLiveness(F),
                              ParsePointNeeded[idx], allInsertedDefs, records[idx])
                     ELSE fixupLivenessLocal(F, Dom(F), ParsePointNeeded[idx],
                              allInsertedDefs, records[idx])
            IN /\ records' = [records EXCEPT ![idx] = r.info]
               /\ failed' = failed \cup r.failed
               /\ idx' = idx + 1
               /\ UNCHANGED <<F, holders, pc>>
    /\ UNCHANGED <<F0, opt, poll, loopVars, selVars, todo, DVCache, relocVars>>

\* insertParsePoints, lines 918-930: the VM state of a site, none when the
\* pass runs without VM states
VMStateAt(CS) == IF VMStateRequired THEN findVMState(F, Dom(F), CS) ELSE NoValue

\* the uses of a call are given to its result projection as soon as the
\* site is materialized
Materialize_RewritesAtOnce ==
    /\ pc = "insert"
    /\ IF idx > Len(records)
       THEN pc' = "replace" /\ idx' = 1 /\ UNCHANGED <<F, records, failed>>
       ELSE LET r == InsertSafepoint(F, ParsePointNeeded[idx],
                                     VMStateAt(ParsePointNeeded[idx]), records[idx])
            IN /\ F' = IF r.result # NoValue
                       THEN RAUW(r.f, ParsePointNeeded[idx], r.result) ELSE r.f
               /\ records' = [records EXCEPT ![idx].safepoint = r.safepoint,
                                             ![idx].result = r.result]
               /\ idx' = idx + 1
               /\ UNCHANGED <<pc, failed>>
    /\ UNCHANGED <<F0, opt, poll, loopVars, selVars, todo, DVCache, holders, relocVars>>

\* insertParsePoints, lines 914-934: one iteration
Materialize ==
    /\ pc = "insert"
    /\ IF idx > Len(records)
       THEN pc' = "replace" /\ idx' = 1 /\ UNCHANGED <<F, records, failed>>
       ELSE LET info == records[idx]
                complete == /\ info.liveset \subseteq DOMAIN info.base_pairs
                            /\ \A L \in info.liveset : info.base_pairs[L] \in info.liveset
                vm_state == VMStateAt(ParsePointNeeded[idx])
                r == InsertSafepoint(F, ParsePointNeeded[idx], vm_state, info)
            IN IF VMStateRequired /\ vm_state = NoValue
               THEN /\ pc' = "crashed"
                    /\ failed' = failed
                          \cup {"must find vm state or be scanning c++ source code"}
                    /\ UNCHANGED <<F, records, idx>>
               ELSE IF opt.BaseRewriteOnly
               THEN idx' = idx + 1 /\ UNCHANGED <<F, records, failed, pc>>
               ELSE IF isCallSiteHoldingVMState(F, ParsePointNeeded[idx]) /\ vm_state = NoValue
               THEN /\ pc' = "crashed"       \* line 2568 stores a null VM state
                    /\ failed' = failed
                    /\ UNCHANGED <<F, records, idx>>
               ELSE IF ~complete
               THEN /\ pc' = "crashed"
                    /\ failed' = failed \cup {"live value without a listed base"}
                    /\ UNCHANGED <<F, records, idx>>
               ELSE /\ F' = r.f
                    /\ records' = [records EXCEPT ![idx].safepoint = r.safepoint,
                                                  ![idx].result = r.result]
                    /\ idx' = idx + 1
                    /\ UNCHANGED <<pc, failed>>
    /\ UNCHANGED <<F0, opt, poll, loopVars, selVars, todo, DVCache, holders, relocVars>>

\* insertParsePoints, lines 937-956: one iteration.  Under BaseRewriteOnly
\* info.result was never written: it reads as null or as a stray pointer
ReplaceCall ==
    /\ pc = "replace"
    /\ idx <= Len(records)
    /\ \E stray \in (IF opt.BaseRewriteOnly THEN BOOLEAN ELSE {FALSE}) :
         IF stray
         THEN /\ pc' = "crashed"
              /\ failed' = failed \cup {"uninitialized result"}
              /\ UNCHANGED <<F, idx>>
         ELSE LET CS == ParsePointNeeded[idx]
                  res == records[idx].result
                  f1 == IF res # NoValue THEN RAUW(F, CS, res) ELSE F
              IN /\ F' = EraseInst(f1, CS)
                 /\ idx' = idx + 1
                 /\ UNCHANGED <<pc, failed>>
    /\ UNCHANGED <<F0, opt, poll, loopVars, selVars, records, todo, DVCache, holders, relocVars>>

\* insertParsePoints, lines 966-984, and relocationViaAlloca, lines 2763-2768
CollectLive ==
    /\ pc = "replace"
    /\ idx > Len(records)
    /\ IF opt.BaseRewriteOnly /\ records # <<>>
       THEN /\ pc' = "crashed"
            /\ failed' = failed \cup {"statepoint of a null instruction"}
            /\ UNCHANGED <<F, live, allocaMap, relocations, Fmat, idx>>
       ELSE LET lv == unique_unsorted(
                        Flatten([k \in DOMAIN records |-> gc_args(F, records[k].safepoint[1])]))
                entry == EntryBlock(F)
                firstNonPHI == CHOOSE k \in DOMAIN F.blocks[entry] :
                                  /\ F.inst[F.blocks[entry][k]].op # "phi"
                                  /\ \A m \in 1..(k - 1) : F.inst[F.blocks[entry][m]].op = "phi"
                ids == [k \in DOMAIN lv |-> F.next + k - 1]
             IN /\ live' = lv
                /\ relocations' \in Orderings(Range(lv))
                /\ Fmat' = F
                /\ allocaMap' = [v \in Range(lv) |-> ids[IndexOf(lv, v)]]
                /\ F' = [F EXCEPT
                           !.inst = [i \in Insts(F) \cup Range(ids) |->
                                       IF i \in Insts(F) THEN F.inst[i]
                                       ELSE MkInst("alloca", TypeOf(F, lv[i - F.next + 1]),
                                                   <<>>, <<>>, "")],
                           !.blocks[entry] =
                               SubSeq(@, 1, firstNonPHI - 1)
                               \o [k \in DOMAIN lv |-> ids[Len(lv) + 1 - k]]
                               \o SubSeq(@, firstNonPHI, Len(@)),
                           !.next = F.next + Len(lv)]
                /\ pc' = "stores"
                /\ idx' = 1
                /\ failed' = failed
    /\ UNCHANGED <<F0, opt, poll, loopVars, selVars, records, todo, DVCache, holders>>

\* relocationViaAlloca, lines 2780-2813: one iteration
StoreAtStatepoint ==
    /\ pc = "stores"
    /\ IF idx > Len(records)
       THEN pc' = "loads" /\ idx' = 1 /\ F' = F
       ELSE /\ F' = StoreRelocations(F, allocaMap, records[idx], relocations)
            /\ idx' = idx + 1
            /\ pc' = pc
    /\ UNCHANGED <<F0, opt, poll, loopVars, selVars, records, todo, DVCache, holders, relocVars,
                   failed>>

\* relocationViaAlloca, lines 2815-2858: one iteration
RewriteUses ==
    /\ pc = "loads"
    /\ IF idx > Len(live)
       THEN pc' = "promote" /\ idx' = 1 /\ F' = F
       ELSE /\ F' = rewriteUsesOfDef(F, allocaMap[live[idx]], live[idx])
            /\ idx' = idx + 1
            /\ pc' = pc
    /\ UNCHANGED <<F0, opt, poll, loopVars, selVars, records, todo, DVCache, holders, relocVars,
                   failed>>

NumAllocas(f) == Cardinality({i \in Insts(f) : f.inst[i].op = "alloca"})

\* relocationViaAlloca, lines 2860-2873
Promote ==
    /\ pc = "promote"
    /\ LET f1 == IF live = <<>> THEN F
                 ELSE PromoteMemToReg(F, Dom(F), PromotableAllocas(allocaMap, live))
       IN /\ F' = f1
          /\ failed' = failed \cup (IF NumAllocas(f1) = NumAllocas(Fmat) THEN {}
                                    ELSE {"We must not introduce any extra allocas"})
    /\ pc' = "done"
    /\ UNCHANGED <<F0, opt, poll, loopVars, selVars, siteVars, relocVars>>

Next ==
    \/ RemoveUnreachable
    \/ FindBackedgePolls
    \/ InsertBackedgePoll
    \/ InsertEntryPoll
    \/ FindCallSites
    \/ HoldVMStates
    \/ AnalyzeLiveness
    \/ ResolveBase
    \/ NextBaseSite
    \/ InsertHolders
    \/ FixupLiveness
    \/ Materialize
    \/ ReplaceCall
    \/ CollectLive
    \/ StoreAtStatepoint
    \/ RewriteUses
    \/ Promote

Spec == Init /\ [][Next]_vars


(***************************************************************************)
(* Properties of the materialized statepoints.                             *)
(***************************************************************************)

Tokens == {records[k].safepoint[1] : k \in DOMAIN records} \ {NoValue}

Statepoints(f) == {i \in Insts(f) : isStatepoint(f, i)}

\* C1: once a parse point is materialized, each value of its live set has
\* exactly one relocate attached to the statepoint token, and the token has
\* no other relocates; this holds right after materialization and still
\* holds when the original calls have been replaced.
C1_OneRelocatePerLiveValue ==
    /\ pc = "insert" =>
          \A k \in DOMAIN records :
             LET T == records[k].safepoint[1]
             IN T # NoValue =>
                  /\ \A v \in records[k].liveset :
                        Cardinality({u \in RelocatesOf(F, T) : derivedPtr(F, u) = v}) = 1
                  /\ Cardinality(RelocatesOf(F, T)) = Cardinality(records[k].liveset)
    /\ pc = "stores" =>
          \A T \in Tokens :
             \A v \in Range(gc_args(Fmat, T)) :
                Cardinality({u \in RelocatesOf(Fmat, T) : derivedPtr(Fmat, u) = v}) = 1

\* two parse points with at least two live values each have been materialized
C1_Witness ==
    /\ pc = "insert"
    /\ idx > Len(records)
    /\ Len(records) >= 2
    /\ \A k \in DOMAIN records :
          /\ records[k].safepoint[1] # NoValue
          /\ Cardinality(records[k].liveset) >= 2

\* C4: after base-pointer resolution, whenever a recorded base and the value
\* derived from it are both instructions, the block of the base dominates
\* the block of the derived value.
C4_BaseBlockDominates ==
    pc \in {"bases", "holders", "fixup", "insert"} =>
       LET D == Dom(F)
       IN \A k \in DOMAIN records :
             \A d \in DOMAIN records[k].base_pairs :
                LET b == records[k].base_pairs[d]
                IN (IsInstId(b) /\ IsInstId(d)) => BlockOf(F, b) \in D[BlockOf(F, d)]

\* a merge of two different bases got a base merge inserted for it
C4_Witness ==
    /\ pc = "insert"
    /\ \E k \in DOMAIN records :
          \E d \in DOMAIN records[k].base_pairs :
             LET b == records[k].base_pairs[d]
             IN /\ b \in allInsertedDefs
                /\ d \notin allInsertedDefs
                /\ IsInstId(d)
                /\ BlockOf(F, b) = BlockOf(F, d)
                /\ \E x \in Range(F.inst[b].args) : IsInstId(x) /\ BlockOf(F, x) # BlockOf(F, b)

\* C5 (as stated): the base of every live value is itself in the live set,
\* is recorded as its own base, and is relocated at the statepoint; this
\* includes the results of atomic operations.
C5_BasesAreLiveAndSelfMapped ==
    pc = "insert" =>
       \A k \in DOMAIN records :
          \A d \in DOMAIN records[k].base_pairs :
             LET b == records[k].base_pairs[d]
                 T == records[k].safepoint[1]
             IN /\ b \in records[k].liveset
                /\ b \in DOMAIN records[k].base_pairs
                /\ records[k].base_pairs[b] = b
                /\ T # NoValue => \E u \in RelocatesOf(F, T) : derivedPtr(F, u) = b

\* C6: the function holds as many stack slots after the relocation rewrite
\* as it held before it.
C6_AllocaCountPreserved ==
    pc = "done" => NumAllocas(F) = NumAllocas(F0)

\* a function with a slot of its own went through the rewrite of two values
C6_Witness ==
    /\ pc = "done"
    /\ Len(live) >= 2
    /\ NumAllocas(F0) = 1
    /\ NumAllocas(F) = 1

\* C7: no statepoint, gc result or gc relocate call is ever selected as a
\* parse point, also when polls were inlined before the calls were scanned.
C7_NoSafepointIntrinsicSelected ==
    \A k \in DOMAIN ParsePointNeeded :
       LET i == ParsePointNeeded[k]
       IN i \in Insts(F) =>
             ~(isStatepoint(F, i) \/ isGCRelocate(F, i) \/ isGCResult(F, i))

\* calls were scanned after a poll was inlined, in a function holding a statepoint
C7_Witness ==
    /\ pc = "liveness"
    /\ polled # {}
    /\ ParsePointNeeded # <<>>
    /\ ~opt.NoCall
    /\ Statepoints(F) # {}
    /\ \E i \in Insts(F) : isGCRelocate(F, i)


(***************************************************************************)
(* Properties of the selection of poll sites.                              *)
(***************************************************************************)

\* the headers of the loops with a single latch and a known positive trip count
FiniteHeaders(f, D) ==
    {h \in LoopHeaders(f, D) :
        /\ Cardinality({e \in Backedges(f, D) : e[2] = h}) = 1
        /\ f.trip[h] > 0}

\* C8: when polls are not forced on all backedges, no poll location is the
\* latch of a loop with a provably finite trip count, and a function whose
\* only safepoint candidates are such loops ends up without any statepoint.
C8_NoPollInFiniteLoop ==
    LET G == removeUnreachableBlocks(F0)
        D == Dom(G)
    IN ~opt.AllBackedges =>
         /\ \A k \in DOMAIN PollLocations :
               \A h \in FiniteHeaders(G, D) :
                  <<BlockOf(G, PollLocations[k]), h>> \notin Backedges(G, D)
         /\ ( /\ pc = "done"
              /\ LoopHeaders(G, D) = FiniteHeaders(G, D)
              /\ opt.NoEntry \/ ~shouldRun(F0, "gc-add-entry-safepoints")
              /\ opt.NoCall \/ findCallSafepoints(G) = <<>> )
            => Statepoints(F) = Statepoints(F0)

\* a function that asked for backedge polls and holds one finite loop is done
C8_Witness ==
    /\ pc = "done"
    /\ ~opt.AllBackedges
    /\ ~opt.NoBackedge
    /\ shouldRun(F0, "gc-add-backedge-safepoints")
    /\ LoopHeaders(F0, Dom(F0)) # {}
    /\ LoopHeaders(F0, Dom(F0)) = FiniteHeaders(F0, Dom(F0))
    /\ PollLocations = <<>>
    /\ opt.NoEntry \/ ~shouldRun(F0, "gc-add-entry-safepoints")
    /\ Statepoints(F) = {}

\* the simple cycles of f through start that avoid the blocks of avoid
RECURSIVE CyclesThrough(_, _, _, _, _)
CyclesThrough(f, avoid, start, cur, visited) ==
    UNION {IF s = start THEN {visited}
           ELSE IF s \in visited THEN {}
           ELSE CyclesThrough(f, avoid, start, s, visited \cup {s}) :
           s \in Succs(f, cur) \ avoid}

Cycles(f, avoid) ==
    UNION {CyclesThrough(f, avoid, b, b, {b}) : b \in Blocks(f) \ avoid}

\* the blocks that hold an instruction of an inlined poll
PollBlocks(f) == {BlockOf(f, i) : i \in inlined \cap Insts(f)}

\* C9 (as stated): once the polls of a function that asked for backedge
\* safepoints are placed, every cycle of its control flow either lies in a
\* loop with a provably finite trip count or passes through an inlined poll.
C9_EveryCycleFiniteOrPolled ==
    ( /\ pc = "calls"
      /\ ~opt.NoBackedge
      /\ shouldRun(F0, "gc-add-backedge-safepoints") )
    => LET D == Dom(F)
       IN \A C \in Cycles(F, PollBlocks(F)) :
             \E h \in FiniteHeaders(F, D) : C \subseteq LoopBlocks(F, D, h)

IsNewMerge(x) ==
    IsInstId(x) /\ x \in Insts(F) /\ x \notin Insts(Fmat) /\ F.inst[x].op = "phi"

\* a relocate of one of the materialized statepoints
IsNewRelocate(x) ==
    IsInstId(x) /\ x \in Insts(F) /\ isGCRelocate(F, x)
    /\ F.inst[x].args[1] \in Tokens

\* the values a value stands for once the new merges are looked through
RECURSIVE Leaves(_, _)
Leaves(work, seen) ==
    IF work = {} THEN {}
    ELSE LET x == CHOOSE y \in work : TRUE
             rest == work \ {x}
         IN IF x \in seen THEN Leaves(rest, seen)
            ELSE IF IsNewMerge(x)
                 THEN Leaves(rest \cup Range(F.inst[x].args), seen \cup {x})
                 ELSE {x} \cup Leaves(rest, seen \cup {x})

\* the values found when new merges and new relocates are both looked through
RECURSIVE Origins(_, _)
Origins(work, seen) ==
    IF work = {} THEN {}
    ELSE LET x == CHOOSE y \in work : TRUE
             rest == work \ {x}
         IN IF x \in seen THEN Origins(rest, seen)
            ELSE IF IsNewMerge(x)
                 THEN Origins(rest \cup Range(F.inst[x].args), seen \cup {x})
                 ELSE IF IsNewRelocate(x)
                      THEN Origins(rest \cup {derivedPtr(F, x)}, seen \cup {x})
                      ELSE {x} \cup Origins(rest, seen \cup {x})

\* operand n of use u is reached only after the statepoint T
UseDominated(D, T, u, n) ==
    IF Fmat.inst[u].op = "phi"
    THEN BlockOf(Fmat, T) \in D[Fmat.inst[u].blks[n]]
    ELSE InstDominates(Fmat, D, T, u)

EventAt(v, i) ==
    IF i = v THEN v
    ELSE IF isGCRelocate(Fmat, i) /\ Fmat.inst[i].args[1] \in Tokens
            /\ derivedPtr(Fmat, i) = v
         THEN i
         ELSE IF \E k \in DOMAIN records :
                    /\ records[k].safepoint[1] # NoValue
                    /\ records[k].safepoint[2] = i
                    /\ records[k].result # v
                    /\ \A u \in RelocatesOf(Fmat, records[k].safepoint[1]) :
                          derivedPtr(Fmat, u) # v
              THEN Null
              ELSE NoValue

\* the last thing block b leaves in the slot of v, NoValue if nothing
LastEvent(v, b) ==
    LET ev == [k \in DOMAIN Fmat.blocks[b] |-> EventAt(v, Fmat.blocks[b][k])]
        ks == {k \in DOMAIN ev : ev[k] # NoValue}
    IN IF ks = {} THEN NoValue ELSE ev[CHOOSE k \in ks : \A m \in ks : m <= k]

\* the contents the slot of v can have at the end of each block
RECURSIVE SlotAtEnd(_, _)
SlotAtEnd(v, Out) ==
    LET In(b) == UNION {Out[p] : p \in Preds(Fmat, b)}
                 \cup (IF b = EntryBlock(Fmat)
                       THEN {IF IsInstId(v) THEN Undef ELSE v} ELSE {})
        New == [b \in Blocks(Fmat) |->
                   IF LastEvent(v, b) # NoValue THEN {LastEvent(v, b)} ELSE In(b)]
    IN IF New = Out THEN Out ELSE SlotAtEnd(v, New)

\* C3: for each phi that takes a tracked value v from predecessor P, the
\* value on that edge after the pass is what the slot of v holds at the end
\* of P: the relocate of v if the last statepoint on the way relocated it,
\* v itself if no statepoint lies on the way, a new merge if paths disagree;
\* dominance by a statepoint plays no role.
C3_PhiEdgesCarrySlotContents ==
    pc = "done" =>
       \A v \in Range(live) :
          LET Out == SlotAtEnd(v, [b \in Blocks(Fmat) |-> {}])
          IN \A u \in Insts(Fmat) :
                Fmat.inst[u].op = "phi" =>
                   \A n \in DOMAIN Fmat.inst[u].args :
                      Fmat.inst[u].args[n] = v =>
                         LET E == Out[Fmat.inst[u].blks[n]]
                             o == F.inst[u].args[n]
                         IN /\ Leaves({o}, {}) = E
                            /\ Cardinality(E) = 1 => o \in E
                            /\ Cardinality(E) > 1 => IsNewMerge(o)

\* a phi reached only through another phi got a new merge on one edge, the
\* phi in front of it got a relocate on one edge and kept the original value
\* on the other
C3_Witness ==
    /\ pc = "done"
    /\ \E u, w \in Insts(Fmat) :
          /\ Fmat.inst[u].op = "phi" /\ Fmat.inst[w].op = "phi"
          /\ BlockOf(Fmat, w) \in Range(Fmat.inst[u].blks)
          /\ \A T \in Tokens :
                /\ BlockOf(Fmat, T) \notin Dom(Fmat)[BlockOf(Fmat, w)]
                /\ BlockOf(Fmat, T) \notin Dom(Fmat)[BlockOf(Fmat, u)]
          /\ \E n \in DOMAIN F.inst[u].args :
                /\ Fmat.inst[u].args[n] \in Range(live)
                /\ IsNewMerge(F.inst[u].args[n])
          /\ \E n, m \in DOMAIN F.inst[w].args :
                /\ Fmat.inst[w].args[n] \in Range(live)
                /\ IsNewRelocate(F.inst[w].args[n])
                /\ Fmat.inst[w].args[m] \in Range(live)
                /\ F.inst[w].args[m] = Fmat.inst[w].args[m]


(***************************************************************************)
(* Properties of the base-pointer lattice.                                 *)
(***************************************************************************)

\* the lattice values over the values of the function
LatticeStates ==
    {PhiState("Unknown", NoValue), PhiState("Conflict", NoValue)}
    \cup {PhiState("Base", v) : v \in Insts(F) \cup DOMAIN F.argty \cup {Null, Undef}}

\* C11: the meet of base-pointer states is commutative and idempotent over
\* Unknown, Base(v) and Conflict, and the commutativity assertion of
\* meetWith has never failed.
C11_MeetCommutativeIdempotent ==
    /\ \A a, b \in LatticeStates :
          /\ pureMeet(a, b) = pureMeet(b, a)
          /\ pureMeet(a, a) = a
    /\ "math is wrong: meet does not commute!" \notin failed

\* a merge of two different bases was met to Conflict and got a base merge
C11_Witness ==
    /\ pc = "bases"
    /\ \E k \in DOMAIN records : records[k].newInsertedDefs # {}
    /\ \E a, b \in LatticeStates :
          a.status = "Base" /\ b.status = "Base" /\ pureMeet(a, b).status = "Conflict"


(***************************************************************************)
(* Properties of the statepoint sequence.                                  *)
(***************************************************************************)

\* the sites that have been materialized
MaterializedSites == {k \in DOMAIN records : records[k].safepoint[1] # NoValue}

\* the instructions behind the token of site k up to its last relocate or result
RangeOf(k) ==
    LET T == records[k].safepoint[1]
        b == F.blocks[BlockOf(F, T)]
    IN SubSeq(b, PosOf(F, T) + 1, PosOf(F, records[k].safepoint[2]))

\* i is a relocate or the result projection of the token T
BelongsTo(i, T) ==
    (isGCRelocate(F, i) \/ isGCResult(F, i)) /\ F.inst[i].args[1] = T

\* C12 (as stated): from materialization to the end of the pass, at every
\* step, nothing but the relocates and the result of a site stands between
\* its token and its last relocate or result.
C12_RangeAlwaysContiguous ==
    \A k \in MaterializedSites :
       /\ BlockOf(F, records[k].safepoint[1]) = BlockOf(F, records[k].safepoint[2])
       /\ \A m \in DOMAIN RangeOf(k) : BelongsTo(RangeOf(k)[m], records[k].safepoint[1])

\* C12 (amended): the range holds only the relocates and the result of the
\* site, except that the original call stands right behind the token until
\* it is erased, and that during the rewrite of uses a store to a temporary
\* slot stands right behind the relocate or result it stores; when the pass
\* ends the range is consecutive.
C12_RangeContiguousAtEnd ==
    \A k \in MaterializedSites :
       LET T == records[k].safepoint[1]
           R == RangeOf(k)
       IN /\ BlockOf(F, T) = BlockOf(F, records[k].safepoint[2])
          /\ \A m \in DOMAIN R :
                \/ BelongsTo(R[m], T)
                \/ /\ pc \in {"insert", "replace", "crashed"}
                   /\ m = 1
                   /\ R[m] = ParsePointNeeded[k]
                \/ /\ pc \in {"stores", "loads", "promote"}
                   /\ m > 1
                   /\ F.inst[R[m]].op = "store"
                   /\ F.inst[R[m]].args[2] \in Range(allocaMap)
                   /\ F.inst[R[m]].args[1] = R[m - 1]
                   /\ BelongsTo(R[m - 1], T)

\* all uses are rewritten and a site with a result and two relocates still
\* holds stores in its range
C12_Witness ==
    /\ pc = "promote"
    /\ \E k \in MaterializedSites :
          /\ records[k].result # NoValue
          /\ Cardinality(RelocatesOf(F, records[k].safepoint[1])) >= 2
          /\ \E m \in DOMAIN RangeOf(k) : F.inst[RangeOf(k)[m]].op = "store"


\* the operand index of the first live value of the statepoint T, as its
\* header and its call arguments give it
LiveStart(T) == StatepointHeader + NumBeforeLive(F, T)

\* C13 (as stated): the two indices of a relocate count from the first live
\* value of the statepoint: they are the positions, from 0, of the base and
\* of the live value within the live region.
C13_IndicesFromLiveRegion ==
    pc = "insert" =>
       \A k \in MaterializedSites :
          LET T == records[k].safepoint[1]
              lv == gc_args(F, T)
          IN \A u \in RelocatesOf(F, T) :
                /\ F.inst[u].meta[2] \in 0..(Len(lv) - 1)
                /\ F.inst[u].meta[1] \in 0..(Len(lv) - 1)
                /\ lv[F.inst[u].meta[1] + 1] = records[k].base_pairs[lv[F.inst[u].meta[2] + 1]]

\* C13 (amended): the operands of a relocate are the token and two operand
\* indices of the statepoint: the position of the base and of the live
\* value within the live region, each added to the index of the first live
\* operand.
C13_IndicesAreStatepointOperands ==
    pc = "insert" =>
       \A k \in MaterializedSites :
          LET T == records[k].safepoint[1]
              lv == gc_args(F, T)
          IN /\ Range(lv) = records[k].liveset
             /\ \A u \in RelocatesOf(F, T) :
                   LET bi == F.inst[u].meta[1] - LiveStart(T)
                       di == F.inst[u].meta[2] - LiveStart(T)
                   IN /\ F.inst[u].args = <<T>>
                      /\ di \in 0..(Len(lv) - 1)
                      /\ bi \in 0..(Len(lv) - 1)
                      /\ lv[bi + 1] = records[k].base_pairs[lv[di + 1]]
                      /\ F.inst[T].args[F.inst[u].meta[2] - StatepointHeader + 1] = lv[di + 1]
             /\ \A u, w \in RelocatesOf(F, T) :
                   F.inst[u].meta[2] = F.inst[w].meta[2] => u = w

\* a statepoint of a call with two arguments relocates a derived pointer
\* whose base is another live value
C13_Witness ==
    /\ pc = "insert"
    /\ \E k \in MaterializedSites :
          LET T == records[k].safepoint[1]
          IN /\ F.inst[T].meta[1] = 2
             /\ \E u \in RelocatesOf(F, T) :
                   /\ F.inst[u].meta[1] # F.inst[u].meta[2]
                   /\ F.inst[u].meta[1] = LiveStart(T)


\* the calls of the function the pass was given that are still there when
\* the call sites are selected
InputCalls ==
    {i \in Insts(removeUnreachableBlocks(F0)) : F0.inst[i].op = "call"}

MemoryIntrinsics == {"llvm.memset", "llvm.memmove", "llvm.memcpy"}

NeverParsePoint(i) ==
    \/ F0.inst[i].callee \in LeafFunctions
    \/ F0.inst[i].callee \in Intrinsics \ MemoryIntrinsics

OrdinaryCall(i) == F0.inst[i].callee \notin Intrinsics \cup LeafFunctions \cup {"asm"}

CallSitesSelected ==
    /\ pc \notin {"start", "backedges", "polls", "entry", "calls"}
    /\ ~opt.NoCall
    /\ shouldRun(F0, "gc-add-call-safepoints")

\* C16: a call of a gc-leaf callee and a call of an intrinsic other than
\* memset, memcpy and memmove is never a parse point and is never replaced
\* by a statepoint; once the call sites are selected, every memset, memcpy
\* and memmove call and every ordinary call that is not a leaf is a parse
\* point.
C16_LeavesAndIntrinsicsSkipped ==
    \A i \in InputCalls :
       /\ NeverParsePoint(i) =>
             /\ i \notin Range(ParsePointNeeded)
             /\ i \in Insts(F)
             /\ F.inst[i].op = "call" /\ F.inst[i].callee = F0.inst[i].callee
       /\ (CallSitesSelected
             /\ (F0.inst[i].callee \in MemoryIntrinsics \/ OrdinaryCall(i)))
            => i \in Range(ParsePointNeeded)

\* the pass has ended on a function with a leaf call between two calls that
\* are not leaves: the neighbours are statepoints, the leaf call stands
\* between the two sequences
C16_Witness ==
    /\ pc = "done"
    /\ \E b \in Blocks(F) : \E m \in DOMAIN F.blocks[b] :
          LET i == F.blocks[b][m]
              m0 == PosOf(F0, i)
          IN /\ m > 1 /\ m < Len(F.blocks[b])
             /\ i \in InputCalls /\ F.inst[i].callee \in LeafFunctions
             /\ isStatepoint(F, F.blocks[b][m - 1]) \/ isGCRelocate(F, F.blocks[b][m - 1])
             /\ isStatepoint(F, F.blocks[b][m + 1])
             /\ F0.blocks[b][m0 - 1] \in Range(ParsePointNeeded)
             /\ F0.blocks[b][m0 + 1] \in Range(ParsePointNeeded)

\* a memory intrinsic and another intrinsic in one function: the first is
\* replaced by a statepoint, the second is kept
C16_WitnessIntrinsics ==
    /\ pc = "done"
    /\ \E i, j \in InputCalls :
          /\ F0.inst[i].callee = "llvm.memset" /\ i \in Range(ParsePointNeeded)
          /\ i \notin Insts(F)
          /\ F0.inst[j].callee = "llvm.dbg" /\ j \in Insts(F)


\* the base defining value as the case table states it: the value itself
\* unless it is a pointer cast or an index computation
RECURSIVE StatedBDV(_, _, _)
StatedBDV(f, I, af) ==
    IF ~IsInstId(I) THEN I
    ELSE LET r == f.inst[I]
         IN CASE r.op = "gep" -> StatedBDV(f, r.args[1], af)
              [] r.op = "bitcast" -> StatedBDV(f, r.args[1], af)
              [] r.op = "inttoptr" -> IF r.md \/ af THEN I ELSE NoValue
              [] OTHER -> I

\* C17: for every value the pass has asked the base defining value of, the
\* function returns what the case table gives: the value itself for an argument, a constant, a slot, a call
\* result, an atomic cmpxchg/RMW result, a field extraction, a load, a phi
\* and a select; that of the source operand for a pointer cast and an index
\* computation; none for an unmarked int-to-pointer cast outside test mode.
C17_BaseDefiningValueCases ==
    pc \in {"bases", "holders", "fixup", "insert"} =>
       \A I \in DOMAIN DVCache :
          \/ /\ IsInstId(I) /\ F.inst[I].op = "call"
             /\ findBaseDefiningValue(F, I, opt.AllFunctions) = NoValue
          \/ findBaseDefiningValue(F, I, opt.AllFunctions)
                = StatedBDV(F, I, opt.AllFunctions)


\* C19: with BaseRewriteOnly the pass ends after base resolution: it has
\* not stopped on an error, no statepoint, relocate or result projection
\* was created, every call of the input is still there and no instruction
\* of the input has had an operand replaced.
C19_BaseRewriteOnlyStops ==
    opt.BaseRewriteOnly =>
       /\ pc # "crashed"
       /\ \A i \in Insts(F) \ Insts(F0) :
             ~(isStatepoint(F, i) \/ isGCRelocate(F, i) \/ isGCResult(F, i))
       /\ InputCalls \subseteq Insts(F)
       /\ \A i \in Insts(F) \cap Insts(F0) : F.inst[i].args = F0.inst[i].args


\* The state of site k, read off the record of the site and the position of
\* the pass
LivenessComputed(k) == k \in DOMAIN records

BasesResolved(k) ==
    /\ LivenessComputed(k)
    /\ records[k].liveset \subseteq DOMAIN records[k].base_pairs
    /\ pc # "liveness"
    /\ pc = "bases" => (idx > k \/ (idx = k /\ todo = {}))

SiteMaterialized(k) == LivenessComputed(k) /\ records[k].safepoint[1] # NoValue

SiteRewritten(k) == SiteMaterialized(k) /\ pc \in {"promote", "done"}

SiteRank(k) ==
    IF SiteRewritten(k) THEN 4
    ELSE IF SiteMaterialized(k) THEN 3
    ELSE IF BasesResolved(k) THEN 2
    ELSE IF LivenessComputed(k) THEN 1
    ELSE 0

\* a use has been rewritten: a temporary slot is stored to or loaded from,
\* or a new result projection has a user
UseRewritingStarted ==
    \/ \E i \in Insts(F) :
          \/ F.inst[i].op = "store" /\ F.inst[i].args[2] \in Range(allocaMap)
          \/ F.inst[i].op = "load" /\ \E a \in Range(allocaMap) : F.inst[i].args = <<a>>
    \/ \E i \in Insts(F) \ Insts(F0) : isGCResult(F, i) /\ Users(F, i) # {}

PhaseBarriers ==
    /\ (\E k \in DOMAIN ParsePointNeeded : SiteMaterialized(k)) =>
          /\ pc \notin {"liveness", "bases", "holders", "fixup"}
          /\ holders = <<>>
          /\ \A j \in DOMAIN ParsePointNeeded : BasesResolved(j)
    /\ UseRewritingStarted =>
          \A j \in DOMAIN ParsePointNeeded : SiteMaterialized(j)

SitesMoveForward ==
    \A k \in DOMAIN ParsePointNeeded :
       k \in DOMAIN ParsePointNeeded' =>
          SiteRank(k)' \in {SiteRank(k), SiteRank(k) + 1}

\* C18: no site is materialized before liveness, base resolution and the
\* fixup of the inserted definitions are over for every site, no use is
\* rewritten before every site is materialized, and every step leaves each
\* site in its state or moves it to the next one of Nominated,
\* LivenessComputed, BasesResolved, Materialized, Rewritten.
C18_PhasesAreBarriers == [](PhaseBarriers) /\ [][SitesMoveForward]_vars

\* two sites, both materialized, and the first uses being rewritten
C18_Witness ==
    /\ Len(ParsePointNeeded) >= 2
    /\ \A k \in DOMAIN ParsePointNeeded : SiteRank(k) = 3
    /\ UseRewritingStarted
    /\ pc = "stores"


\* the result projections of a statepoint token
ResultsOf(f, T) == {u \in Users(f, T) : isGCResult(f, u)}

\* what stands for instruction u of the input once the calls are replaced:
\* u itself, or the token of the site u was
Replaced(u) ==
    IF u \in Range(ParsePointNeeded)
    THEN records[IndexOf(ParsePointNeeded, u)].safepoint[1]
    ELSE u

\* the result projection of token T has taken every use of the call CS of
\* the input, and there is none when the call had no type or no user
gc_result_used(CS, T) ==
    LET users == Users(F0, CS) \cap Insts(removeUnreachableBlocks(F0))
        hasResult == F0.inst[CS].ty # "void" /\ users # {}
    IN /\ Cardinality({u \in Users(Fmat, T) : isGCResult(Fmat, u)})
            = (IF hasResult THEN 1 ELSE 0)
       /\ hasResult =>
             \A u \in users : \A p \in DOMAIN F0.inst[u].args :
                F0.inst[u].args[p] = CS =>
                   /\ Replaced(u) \in Insts(Fmat)
                   /\ Fmat.inst[Replaced(u)].args[p] = records[IndexOf(ParsePointNeeded, CS)].result

\* the call of site k is replaced: removed, one token of the same callee,
\* a result projection exactly when the call had a type and a user, and
\* every operand that was the call is now the projection
SiteReplaced(k) ==
    LET CS == ParsePointNeeded[k]
        T == records[k].safepoint[1]
    IN /\ CS \notin Insts(Fmat)
       /\ T \in Insts(Fmat) /\ isStatepoint(Fmat, T)
       /\ \A j \in DOMAIN records : records[j].safepoint[1] = T => j = k
       /\ Cardinality(ResultsOf(Fmat, T)) <= 1
       /\ \A u \in Insts(Fmat) : CS \notin Range(Fmat.inst[u].args)
       /\ CS \in Insts(F0) =>
             /\ Fmat.inst[T].target = F0.inst[CS].callee
             /\ gc_result_used(CS, T)

\* C20: unless BaseRewriteOnly is set, once the calls are replaced every
\* selected call is gone and one statepoint token stands for it, with one
\* result projection when the call has a type and a user and none
\* otherwise; every operand that was the call is the projection; and no call
\* is a site twice, so there are as many new tokens as selected calls.
C20_EachCallReplacedOnce ==
    /\ \A j, k \in DOMAIN ParsePointNeeded :
          ParsePointNeeded[j] = ParsePointNeeded[k] => j = k
    /\ (~opt.BaseRewriteOnly /\ pc \in {"stores", "loads", "promote", "done"}) =>
          /\ \A k \in DOMAIN ParsePointNeeded : SiteReplaced(k)
          /\ Cardinality(Statepoints(Fmat) \ (Statepoints(F0) \cup inlined))
                = Len(ParsePointNeeded)

\* a call the poll scan and the call scan both nominated, and a call whose
\* result is used, both replaced
C20_Witness ==
    /\ pc = "done"
    /\ ~opt.NoCall /\ shouldRun(F0, "gc-add-call-safepoints")
    /\ \E k \in DOMAIN ParsePointNeeded : ParsePointNeeded[k] \in inlined
    /\ \E k \in DOMAIN ParsePointNeeded :
          ResultsOf(Fmat, records[k].safepoint[1]) # {}


\* the invokes of the function the pass was given that are still there when
\* the call sites are selected
InputInvokes ==
    {i \in Insts(removeUnreachableBlocks(F0)) : F0.inst[i].op = "invoke"}

OperandsOf(T) == <<F.inst[T].target>> \o F.inst[T].meta \o F.inst[T].args

\* the arguments the call CS hands to its callee: a VM state held in front
\* of them is not one
OriginalArgs(CS) ==
    IF F.inst[CS].args # <<>> /\ isJVMState(F, F.inst[CS].args[1])
    THEN Tail(F.inst[CS].args) ELSE F.inst[CS].args

\* the statepoint of site k lists, from operand 0: what the statepoint of
\* the call CS with the VM state js (NoValue: none) and the live values
\* livevec has to list
OperandLayout(T, CS, js, livevec) ==
    LET ops == OperandsOf(T)
        argCount == Len(OriginalArgs(CS))
        nStack == IF js = NoValue THEN 0 ELSE numStackElements(F, js)
        nLocals == IF js = NoValue THEN 0 ELSE numLocals(F, js)
        nMonitors == IF js = NoValue THEN 0 ELSE numMonitors(F, js)
        stackAt == 8 + argCount
        localsAt == stackAt + 2 * nStack
        monitorsAt == localsAt + 2 * nLocals
        liveAt == monitorsAt + nMonitors
    IN /\ Len(ops) = liveAt + Len(livevec)
       /\ ops[1] = F.inst[CS].callee
       /\ ops[2] = argCount
       /\ ops[3] = 0
       /\ SubSeq(ops, 4, 8) = IF js = NoValue THEN <<0, -1, 0, 0, 0>>
                              ELSE <<0, bci(F, js), nStack, nLocals, nMonitors>>
       /\ \A i \in 1..argCount : ops[8 + i] = OriginalArgs(CS)[i]
       /\ \A i \in 1..nStack : /\ ops[stackAt + 2 * i - 1] = TypeTag
                                /\ ops[stackAt + 2 * i] = stackElementAt(F, js, i)
       /\ \A i \in 1..nLocals : /\ ops[localsAt + 2 * i - 1] = TypeTag
                                 /\ ops[localsAt + 2 * i] = localAt(F, js, i)
       /\ \A i \in 1..nMonitors : ops[monitorsAt + i] = monitorAt(F, js, i)
       /\ \A i \in 1..Len(livevec) : ops[liveAt + i] = livevec[i]
       /\ js = NoValue => SubSeq(ops, 8 + argCount + 1, Len(ops)) = livevec

\* C14: while the sites are materialized, the operands of the statepoint of
\* every materialized site are, in order: the callee, the number of call
\* arguments, a flag word of 0, five integers of the VM state (0, the
\* bytecode index, the numbers of stack elements, locals and monitors), the
\* call arguments, a type tag and the value of every stack element, a type
\* tag and the value of every local, every monitor, then the live values
\* of the site in their stable order; the first live value is operand
\* 8 + argCount + 2*#stack + 2*#locals + #monitors.  Without a VM state the
\* five integers are 0, -1, 0, 0, 0 and the live values follow the call
\* arguments.
C14_StatepointOperandLayout ==
    pc = "insert" =>
        \A k \in MaterializedSites :
            OperandLayout(records[k].safepoint[1], ParsePointNeeded[k],
                          VMStateAt(ParsePointNeeded[k]),
                          stablize_order(records[k].liveset))

\* a statepoint that lists call arguments, a stack element, locals, a
\* monitor and live values
C14_Witness ==
    /\ pc = "insert"
    /\ \E k \in MaterializedSites :
          \E js \in {VMStateAt(ParsePointNeeded[k])} :
             /\ js # NoValue
             /\ numStackElements(F, js) > 0 /\ numLocals(F, js) > 1
             /\ numMonitors(F, js) > 0
             /\ OriginalArgs(ParsePointNeeded[k]) # <<>>
             /\ records[k].liveset # {}
             /\ LiveStart(records[k].safepoint[1]) = 16

\* a statepoint without VM state whose live values follow its call arguments
C14_WitnessPlaceholders ==
    /\ pc = "insert"
    /\ \E k \in MaterializedSites :
          /\ VMStateAt(ParsePointNeeded[k]) = NoValue
          /\ F.inst[records[k].safepoint[1]].meta = <<1, 0, 0, -1, 0, 0, 0>>
          /\ records[k].liveset # {}


(***************************************************************************)
(* The live sets of the sites.                                             *)
(***************************************************************************)

\* the phases from liveness analysis to materialization
LivePhases == {"liveness", "bases", "holders", "fixup", "insert"}

\* C21: from liveness analysis to materialization, in either liveness mode,
\* every value in the live set of a site has GC pointer type and is not the
\* null constant, not an undefined value and not the value the instruction
\* of the site defines.
C21_LiveSetsHoldGCPointers ==
    pc \in LivePhases =>
        \A k \in DOMAIN records : \A v \in records[k].liveset :
            /\ isGCPointerType(TypeOf(F, v))
            /\ v # Null
            /\ v # Undef
            /\ v # ParsePointNeeded[k]


(***************************************************************************)
(* computeGCPtrLiveness as a loop of its own: one step per worklist entry. *)
(***************************************************************************)

LiveInit == InitAt("dataflow", LivenessStart(F), {NoSearch})

\* computeGCPtrLiveness, lines 1692-1735: the body of the while loop
IterateWorklist ==
    /\ pc = "dataflow"
    /\ liveness.worklist # <<>>
    /\ liveness' = LivenessStep(F, liveness.Data, liveness.worklist)
    /\ UNCHANGED <<F, F0, opt, poll, pc, selVars, siteVars, relocVars, failed, search, currentBB>>

LiveNext == IterateWorklist

\* the loop runs as long as the worklist is not empty
LiveSpec == LiveInit /\ [][LiveNext]_vars /\ WF_vars(IterateWorklist)

\* LiveOut[B] is the union of LiveIn over the successors of B, LiveIn[B] is
\* the backward kill/gen walk of B applied to LiveOut[B]
LiveEquationsHold(f, Data) ==
    \A B \in Blocks(f) :
        /\ Data.LiveOut[B] = UNION {Data.LiveIn[S] : S \in Succs(f, B)}
        /\ Data.LiveIn[B] = computeGCPtrLivenessRange(f, f.blocks[B], Data.LiveOut[B])

\* the least solution of the equations: the limit of the chain that starts
\* with every LiveIn empty and applies the equations to all blocks at once
RECURSIVE LeastLiveIn(_, _)
LeastLiveIn(f, LiveIn) ==
    LET next == [B \in Blocks(f) |->
                    computeGCPtrLivenessRange(f, f.blocks[B],
                                              UNION {LiveIn[S] : S \in Succs(f, B)})]
    IN IF next = LiveIn THEN LiveIn ELSE LeastLiveIn(f, next)

WorklistDone ==
    /\ liveness.worklist = <<>>
    /\ LiveEquationsHold(F, liveness.Data)
    /\ liveness.Data.LiveIn = LeastLiveIn(F, [B \in Blocks(F) |-> {}])

\* C22: the worklist loop of computeGCPtrLiveness comes to an end on every
\* function, and from then on LiveOut[B] is the union of LiveIn[S] over the
\* successors S of B and LiveIn[B] is the backward kill/gen walk of B applied
\* to LiveOut[B], for every block B, and the sets are the least solution of
\* these equations.
C22_WorklistEndsInLeastSolution == <>[]WorklistDone

\* the loop has ended on a function with a cycle: some block has live
\* values, some block has none, and some block defines a value that is live
\* when it is left
C22_Witness ==
    /\ pc = "dataflow"
    /\ WorklistDone
    /\ Backedges(F, Dom(F)) # {}
    /\ \E B \in Blocks(F) : liveness.Data.LiveIn[B] # {}
    /\ \E B \in Blocks(F) : liveness.Data.LiveIn[B] = {} /\ liveness.Data.LiveOut[B] = {}
    /\ \E B \in Blocks(F) : liveness.Data.LiveOut[B] \ liveness.Data.LiveIn[B] # {}


(***************************************************************************)
(* The live set of the dataflow mode against liveness by paths.            *)
(***************************************************************************)

\* the values of GC pointer type of f that are not constants
GCValues(f) ==
    {a \in DOMAIN f.argty : isGCPointerType(f.argty[a])}
      \cup {i \in Insts(f) : isGCPointerType(f.inst[i].ty)}

\* the instructions control passes to from instruction n
InstSuccs(f, n) ==
    LET b == BlockOf(f, n)
        k == PosOf(f, n)
    IN IF k < Len(f.blocks[b]) THEN {f.blocks[b][k + 1]}
       ELSE {f.blocks[sb][1] : sb \in Succs(f, b)}

\* the instructions on the paths that start at one of frontier and do not
\* pass the instruction def
RECURSIVE PathsNotVia(_, _, _, _)
PathsNotVia(f, def, seen, frontier) ==
    IF frontier = {} THEN seen
    ELSE LET nxt == ((UNION {InstSuccs(f, n) : n \in frontier}) \ {def}) \ seen
         IN PathsNotVia(f, def, seen \cup nxt, nxt)

\* v has a use that I reaches on a path that does not pass the definition
\* of v; a phi uses an incoming value at the end of the incoming block
LiveByPaths(f, I) ==
    {v \in GCValues(f) \ {I} :
        \E u \in Users(f, v) :
            IF f.inst[u].op = "phi"
            THEN \E k \in DOMAIN f.inst[u].args :
                    /\ f.inst[u].args[k] = v
                    /\ Terminator(f, f.inst[u].blks[k]) \in PathsNotVia(f, v, {I}, {I})
            ELSE u \in PathsNotVia(f, v, {I}, {I})}

\* C23: in dataflow mode the live set computed for a parse point I holds a
\* GC value v if and only if some use of v is reachable from I on a control
\* flow path that does not pass the definition of v, a phi using an incoming
\* value on the edge it comes in by.
C23_DataflowLiveIffUseReachable ==
    (pc = "liveness" /\ opt.DataflowLiveness) =>
        \A k \in DOMAIN records :
            records[k].liveset = LiveByPaths(F, ParsePointNeeded[k])


(***************************************************************************)
(* findBasePointer as loops of their own: the collection of the merges and *)
(* the meet propagation, one merge per step.                               *)
(***************************************************************************)

Unknown == PhiState("Unknown", NoValue)

\* findBasePointer, lines 2124-2154, for the value I and an empty cache
SearchFrom(d) ==
    [phase |-> "collect",
     st |-> [states |-> {d.v}, cache |-> d.cache, work |-> <<d.v>>],
     states |-> <<>>, visit |-> {}, progress |-> FALSE]

\* the searches that do not end at line 2127: the base defining value of I
\* is a merge that is not a base
Searches(f, af) ==
    {SearchFrom(findBaseOrBDV(f, [v \in {} |-> 0], I, af)) :
        I \in {i \in Insts(f) : /\ isGCPointerType(f.inst[i].ty)
                                /\ f.inst[i].op \in {"phi", "select", "gep"}
                                /\ ~isKnownBaseResult(f,
                                       findBaseOrBDV(f, [v \in {} |-> 0], i, af).v)}}

BaseInit == InitAt("findbase", NoLiveness, Searches(F, opt.AllFunctions))

\* lines 2158-2187: the inputs of one collected merge are scanned
CollectMerge ==
    /\ pc = "findbase"
    /\ search.phase = "collect"
    /\ search.st.work # <<>>
    /\ search' = [search EXCEPT !.st = CollectStep(F, opt.AllFunctions, search.st)]
    /\ UNCHANGED <<F, F0, opt, poll, pc, selVars, siteVars, relocVars, failed, liveness, currentBB>>

\* lines 2188-2212: the collection is over, every merge starts Unknown
StartMeet ==
    /\ pc = "findbase"
    /\ search.phase = "collect"
    /\ search.st.work = <<>>
    /\ search' = [search EXCEPT !.phase = "meet",
                                !.states = [v \in search.st.states |-> Unknown],
                                !.visit = search.st.states,
                                !.progress = FALSE]
    /\ UNCHANGED <<F, F0, opt, poll, pc, selVars, siteVars, relocVars, failed, liveness, currentBB>>

\* lines 2213-2233: the next merge of the pass over the states map, in
\* whatever order the map keeps its keys
MeetMerge ==
    /\ pc = "findbase"
    /\ search.phase = "meet"
    /\ \E v \in search.visit :
         \E new \in {MeetOne(F, search.st.cache, opt.AllFunctions, search.states, v)} :
            search' = [search EXCEPT !.states = new,
                                     !.visit = @ \ {v},
                                     !.progress = @ \/ new # search.states]
    /\ UNCHANGED <<F, F0, opt, poll, pc, selVars, siteVars, relocVars, failed, liveness, currentBB>>

\* lines 2208-2212 and 2235-2238: another pass if the last one changed a state
EndRound ==
    /\ pc = "findbase"
    /\ search.phase = "meet"
    /\ search.visit = {}
    /\ search' = IF search.progress
                 THEN [search EXCEPT !.visit = DOMAIN search.states, !.progress = FALSE]
                 ELSE [search EXCEPT !.phase = "settled"]
    /\ UNCHANGED <<F, F0, opt, poll, pc, selVars, siteVars, relocVars, failed, liveness, currentBB>>

BaseNext == CollectMerge \/ StartMeet \/ MeetMerge \/ EndRound

\* both loops run while their conditions hold
BaseSpec == BaseInit /\ [][BaseNext]_vars /\ WF_vars(BaseNext)

\* what findBaseOrBDV gives for the inputs of the merge v
InputBDVs(v) ==
    {findBaseOrBDV(F, search.st.cache, Incoming(F, v)[k], opt.AllFunctions).v :
        k \in DOMAIN Incoming(F, v)}

\* the collected merges that reach an input that is not a merge, through
\* the merges of G
RECURSIVE ReachNonMerge(_)
ReachNonMerge(G) ==
    LET more == {v \in search.st.states \ G :
                    \E b \in InputBDVs(v) : isKnownBaseResult(F, b) \/ b \in G}
    IN IF more = {} THEN G ELSE ReachNonMerge(G \cup more)

\* a state stays, or moves from Unknown, or from a base to Conflict
Descends(a, b) ==
    \/ a = b
    \/ a.status = "Unknown"
    \/ a.status = "Base" /\ b.status = "Conflict"

StatesDescend ==
    (search.phase = "meet" /\ search'.phase \in {"meet", "settled"}) =>
        \A v \in DOMAIN search.states : Descends(search.states[v], search'.states[v])

SearchSettled ==
    /\ search.phase = "settled"
    /\ ReachNonMerge({}) = search.st.states =>
          \A v \in DOMAIN search.states : search.states[v].status # "Unknown"

\* C24: both loops of findBasePointer come to an end (the collection of the
\* merges reachable through incoming base defining values, then the meet
\* propagation), whatever merges take themselves or each other as inputs;
\* while the propagation runs the state of a merge only moves from Unknown
\* to a base to Conflict, never back and never from one base to another; and
\* when it has stopped no collected merge is Unknown, provided every
\* collected merge reaches an input that is not a merge.
C24_MergeSearchSettles == <>[]SearchSettled /\ [][StatesDescend]_vars

\* the propagation has stopped for two phis that take each other as inputs
\* and end in Conflict
C24_Witness ==
    /\ search.phase = "settled"
    /\ \E v, w \in DOMAIN search.states :
          /\ v # w
          /\ w \in InputBDVs(v) /\ v \in InputBDVs(w)
          /\ search.states[v].status = "Conflict"
          /\ search.states[w].status = "Conflict"

\* the propagation has stopped for a phi that takes itself as input and
\* has a base
C24_WitnessSelf ==
    /\ search.phase = "settled"
    /\ \E v \in DOMAIN search.states :
          v \in InputBDVs(v) /\ search.states[v].status = "Base"


\* the states of the merges at the end of the propagation that
\* findBasePointer runs for I; no merge when line 2127 returns
StatesAtEnd(f, cache, I, af) ==
    LET d == findBaseOrBDV(f, cache, I, af)
    IN IF isKnownBaseResult(f, d.v) THEN <<>>
       ELSE LET c0 == CollectStates(f, af,
                         [states |-> {d.v}, cache |-> d.cache, work |-> <<d.v>>])
            IN MeetFixpoint(f, c0.cache, af, [v \in c0.states |-> Unknown])

\* the value the live pointer resolved by this step
ResolvedBy(ptr) == pc = "bases" /\ pc' = "bases" /\ todo \ todo' = {ptr}

\* the instructions this step inserted directly before v
InsertedBefore(v) ==
    {n \in Insts(F') \ Insts(F) :
        /\ BlockOf(F', n) = BlockOf(F', v)
        /\ PosOf(F', n) + 1 = PosOf(F', v)}

\* the base of the incoming value x once the step is over
BaseAfter(x) ==
    LET b == findBaseOrBDV(F, DVCache, x, opt.AllFunctions).v
    IN IF isKnownBaseResult(F, b) THEN b ELSE DVCache'[b]

\* o is the value b, or a cast of b to the type ty that the step inserted
IsBaseOrCast(o, b, ty) ==
    IF TypeOf(F', b) = ty THEN o = b
    ELSE /\ o \in Insts(F') \ Insts(F)
         /\ F'.inst[o].op = "bitcast"
         /\ F'.inst[o].ty = ty
         /\ F'.inst[o].args = <<b>>

\* n is the base merge of the merge v
IsBaseMergeOf(n, v) ==
    /\ F'.inst[n].op = F.inst[v].op
    /\ F'.inst[n].ty = F.inst[v].ty
    /\ F'.inst[n].md
    /\ IF F.inst[v].op = "phi"
       THEN /\ F'.inst[n].blks = F.inst[v].blks
            /\ Len(F'.inst[n].args) = Len(F.inst[v].args)
       ELSE F'.inst[n].args[1] = F.inst[v].args[1]
    /\ \A k \in DOMAIN Incoming(F, v) :
          IsBaseOrCast(Incoming(F', n)[k], BaseAfter(Incoming(F, v)[k]), F.inst[v].ty)

NewBaseMerges ==
    {n \in Insts(F') \ Insts(F) : F'.inst[n].op \in {"phi", "select"}}

BaseMergesInserted ==
    \A ptr \in todo : ResolvedBy(ptr) =>
       LET states == StatesAtEnd(F, DVCache, ptr, opt.AllFunctions)
           conflicts == {v \in DOMAIN states : states[v].status = "Conflict"}
       IN /\ \A v \in conflicts :
               /\ Cardinality(InsertedBefore(v)) = 1
               /\ \A n \in InsertedBefore(v) : IsBaseMergeOf(n, v)
               /\ DVCache'[v] \in InsertedBefore(v)
          /\ \A v \in DOMAIN states \ conflicts :
               /\ states[v].status = "Base"
               /\ DVCache'[v] = states[v].base
               /\ InsertedBefore(v) \cap NewBaseMerges = {}
          /\ Cardinality(NewBaseMerges) = Cardinality(conflicts)

\* C25: for every merge that ends the propagation in Conflict exactly one
\* new merge of the same kind is inserted directly before it and marked
\* is_base_value, with the same condition (select) or the same number of
\* incomings from the same blocks (phi), and its operand for each original
\* operand is the base of that operand, cast to the type of the merge when
\* the types differ; for a merge that ends with a base b the recorded base
\* is b and nothing is inserted.
C25_ConflictGetsOneBaseMerge == [][BaseMergesInserted]_vars

\* a base phi with a cast operand has been inserted for a phi
C25_Witness ==
    \E n \in Insts(F) :
       /\ F.inst[n].op = "phi" /\ F.inst[n].md
       /\ \E o \in Range(F.inst[n].args) : IsInstId(o) /\ F.inst[o].op = "bitcast"

\* a base select has been inserted, and another merge has kept a base
C25_WitnessSelect ==
    \E n \in Insts(F) : F.inst[n].op = "select" /\ F.inst[n].md


\* the merges of the function the pass was given that are not bases
OriginalMerges ==
    {v \in Insts(F) \cap Insts(F0) :
        F.inst[v].op \in {"phi", "select"} /\ ~F.inst[v].md}

\* the base merges that stand before the merge v: inserted merges of its
\* kind with the mark, with nothing but inserted merges and casts up to v
BaseMergesOf(v) ==
    LET blk == F.blocks[BlockOf(F, v)]
        inserted(n) == /\ n \notin Insts(F0)
                       /\ \/ F.inst[n].op = "bitcast"
                          \/ F.inst[n].op = F.inst[v].op /\ F.inst[n].md
    IN {n \in Range(blk) :
          /\ n \notin Insts(F0)
          /\ F.inst[n].op = F.inst[v].op /\ F.inst[n].md
          /\ PosOf(F, n) < PosOf(F, v)
          /\ \A k \in PosOf(F, n) .. PosOf(F, v) - 1 : inserted(blk[k])}

OneBaseMergePerMerge ==
    \A v \in OriginalMerges : Cardinality(BaseMergesOf(v)) <= 1

\* an entry that holds a known base keeps it
KnownBasesStay ==
    (pc = "bases") =>
       \A v \in DOMAIN DVCache :
          isKnownBaseResult(F, DVCache[v]) =>
             v \in DOMAIN DVCache' /\ DVCache'[v] = DVCache[v]

\* C26: the cache of base defining values is shared by all sites of a
\* function: once an entry maps a value to a known base no later resolution
\* changes it to a different value, and however many sites have a given
\* original merge, or values derived from it, live, at most one base merge is
\* ever inserted for that merge.
C26_CacheSharedAcrossSites == []OneBaseMergePerMerge /\ [][KnownBasesStay]_vars

\* two sites have the same merge live and both have the one inserted base
\* merge as its base
C26_Witness ==
    \E v \in OriginalMerges :
       /\ Cardinality(BaseMergesOf(v)) = 1
       /\ \E j, k \in DOMAIN records :
             /\ j # k
             /\ v \in DOMAIN records[j].base_pairs
             /\ v \in DOMAIN records[k].base_pairs
             /\ records[j].base_pairs[v] \in BaseMergesOf(v)
             /\ records[k].base_pairs[v] \in BaseMergesOf(v)


(***************************************************************************)
(* findLocationForEntrySafepoint as a loop of its own.                     *)
(***************************************************************************)

EntryInit == InitAt("findentry", NoLiveness, {NoSearch})

\* lines 641-651: no entry safepoint is asked for
NoEntryLocation ==
    /\ pc = "findentry"
    /\ ~shouldRun(F, "gc-add-entry-safepoints")
    /\ pc' = "noentry"
    /\ UNCHANGED <<F, F0, opt, poll, loopVars, selVars, siteVars, relocVars, failed>>

\* lines 672-690: one iteration of while (true) that does not break
WalkEntryChain ==
    /\ pc = "findentry"
    /\ shouldRun(F, "gc-add-entry-safepoints")
    /\ EntryNext(F, currentBB) # NoValue
    /\ currentBB' = EntryNext(F, currentBB)
    /\ UNCHANGED <<F, F0, opt, poll, pc, selVars, siteVars, relocVars, failed,
                   liveness, search>>

\* lines 674-677, 678-689 and 692-693: the loop breaks
ReturnTerminator ==
    /\ pc = "findentry"
    /\ shouldRun(F, "gc-add-entry-safepoints")
    /\ EntryNext(F, currentBB) = NoValue
    /\ pc' = "entryfound"
    /\ UNCHANGED <<F, F0, opt, poll, loopVars, selVars, siteVars, relocVars, failed>>

EntryNext3 == NoEntryLocation \/ WalkEntryChain \/ ReturnTerminator

\* the loop runs while it does not break
EntrySpec == EntryInit /\ [][EntryNext3]_vars /\ WF_vars(EntryNext3)

\* the blocks b1, b2, ... with b1 the entry block and each next one the
\* unique successor of the one before and with a unique predecessor
IsEntryChain(c) ==
    /\ c # <<>>
    /\ c[1] = EntryBlock(F)
    /\ \A k \in 1 .. Len(c) - 1 :
          /\ Succs(F, c[k]) = {c[k + 1]}
          /\ Preds(F, c[k + 1]) = {c[k]}

\* no chain goes on from c
IsWholeChain(c) ==
    /\ IsEntryChain(c)
    /\ \A b \in Blocks(F) : ~IsEntryChain(Append(c, b))

\* the blocks reached from the entry block without passing the block bb
ReachedAround(bb) ==
    IF bb = EntryBlock(F) THEN {}
    ELSE ReachFrom([F EXCEPT !.inst[Terminator(F, bb)].blks = <<>>],
                   {EntryBlock(F)}, {EntryBlock(F)}) \ {bb}

OnEveryPathToReturn(bb) ==
    \A r \in ReachedAround(bb) : F.inst[Terminator(F, r)].op # "ret"

EntrySearchDone ==
    \/ pc = "noentry"
    \/ /\ pc = "entryfound"
       /\ \E c \in UNION {[1 .. n -> Blocks(F)] : n \in 1 .. Cardinality(Blocks(F))} :
             IsWholeChain(c) /\ c[Len(c)] = currentBB
       /\ findLocationForEntrySafepoint(F) = Terminator(F, currentBB)
       /\ OnEveryPathToReturn(currentBB)

\* C27: the search for the location of the entry poll comes to an end on
\* every control flow graph and returns the terminator of the last block of
\* the chain that starts at the entry block and steps from a block to its
\* unique successor only while that successor has a unique predecessor; the
\* location therefore lies on every path from the entry of the function to
\* any return.
C27_EntrySearchTerminates == <>[]EntrySearchDone

\* the search has walked past the entry block of a function that branches
\* further on
C27_Witness ==
    /\ pc = "entryfound"
    /\ currentBB # EntryBlock(F)
    /\ Cardinality(Succs(F, currentBB)) > 1


\* the step inlines the poll in front of the location term
PollInlinedAt(term) ==
    /\ pc \in {"polls", "entry"}
    /\ polled' = polled \cup {term}
    /\ F' # F

\* the calls that the inlined body has put between the instruction in front
\* of term and term, in whatever block, and that need a statepoint
InlinedCallsAt(term) ==
    {i \in Insts(F') \ Insts(F) :
        /\ F'.inst[i].op = "call"
        /\ needsStatepoint(F', i)
        /\ BlockOf(F', term) \in
              ReachFrom([F' EXCEPT !.inst[term].blks = <<>>],
                        {BlockOf(F', i)}, {BlockOf(F', i)})
        /\ BlockOf(F', i) = BlockOf(F', term) => PosOf(F', i) < PosOf(F', term)}

PollReportsInlinedCalls ==
    \A term \in Insts(F) : PollInlinedAt(term) =>
       /\ Len(ParsePointNeeded') >= Len(ParsePointNeeded)
       /\ SubSeq(ParsePointNeeded', 1, Len(ParsePointNeeded)) = ParsePointNeeded
       /\ Range(SubSeq(ParsePointNeeded', Len(ParsePointNeeded) + 1,
                       Len(ParsePointNeeded'))) = InlinedCallsAt(term)
       /\ InlinedCallsAt(term) \cap Insts(F) = {}

\* call safepoints are off, by option or for want of the attribute
CallSafepointsDisabled == opt.NoCall \/ ~shouldRun(F0, "gc-add-call-safepoints")

PollCallsMaterialized ==
    (pc = "done") =>
       \A k \in DOMAIN ParsePointNeeded :
          ParsePointNeeded[k] \in inlined =>
             /\ ParsePointNeeded[k] \notin Insts(F)
             /\ records[k].safepoint[1] \in Statepoints(F)
             /\ F.inst[records[k].safepoint[1]].target = "do_safepoint"

\* C28: for each poll location InsertSafepointPoll reports as parse points
\* exactly the calls that lie in the inlined poll body (behind the
\* instruction that preceded the poll and before the original location, in
\* all inlined blocks) and that need a statepoint, never a call the function
\* had before the inlining; these calls are made statepoints even when call
\* safepoints are disabled for the function.
C28_PollCallsAreParsePoints ==
    [][PollReportsInlinedCalls]_vars /\ []PollCallsMaterialized

\* a function with call safepoints disabled and a call of its own has come
\* to the end with the slow path call of an inlined poll made a statepoint
C28_Witness ==
    /\ pc = "done"
    /\ CallSafepointsDisabled
    /\ \E i \in Insts(F) : F.inst[i].op = "call" /\ i \in Insts(F0)
                             /\ needsStatepoint(F, i)
    /\ \E k \in DOMAIN ParsePointNeeded :
          /\ ParsePointNeeded[k] \in inlined
          /\ records[k].safepoint[1] \in Statepoints(F)

\* a poll body of several blocks has been inlined and its call reported
C28_WitnessBlocks ==
    /\ pc = "calls"
    /\ Len(poll) > 1
    /\ ParsePointNeeded # <<>>


\* what instruction i of F writes to the slot a, NoValue if it is no store
\* to a
Written(a, i) ==
    IF F.inst[i].op = "store" /\ F.inst[i].args[2] = a THEN F.inst[i].args[1]
    ELSE NoValue

\* the value of the last store to a among the first n instructions of
\* block b, NoValue if there is none
LastWritten(a, b, n) ==
    LET ks == {k \in 1 .. n : Written(a, F.blocks[b][k]) # NoValue}
    IN IF ks = {} THEN NoValue
       ELSE Written(a, F.blocks[b][CHOOSE k \in ks : \A m \in ks : m <= k])

\* the values the slot a can hold at the end of each block of F
RECURSIVE SlotOut(_, _)
SlotOut(a, Out) ==
    LET In(b) == UNION {Out[p] : p \in Preds(F, b)}
                 \cup (IF b = EntryBlock(F) THEN {Undef} ELSE {})
        New == [b \in Blocks(F) |->
                   IF LastWritten(a, b, Len(F.blocks[b])) # NoValue
                   THEN {LastWritten(a, b, Len(F.blocks[b]))} ELSE In(b)]
    IN IF New = Out THEN Out ELSE SlotOut(a, New)

\* the values a read of the slot a in front of instruction i can yield
SlotBefore(a, i) ==
    LET b == BlockOf(F, i)
        w == LastWritten(a, b, PosOf(F, i) - 1)
        Out == SlotOut(a, [x \in Blocks(F) |-> {}])
    IN IF w # NoValue THEN {w}
       ELSE UNION {Out[p] : p \in Preds(F, b)}
            \cup (IF b = EntryBlock(F) THEN {Undef} ELSE {})

\* the first instruction behind i that is not a store
RECURSIVE PastStores(_)
PastStores(i) ==
    LET nxt == F.blocks[BlockOf(F, i)][PosOf(F, i) + 1]
    IN IF F.inst[nxt].op = "store" THEN PastStores(nxt) ELSE nxt

\* the stores that relocationViaAlloca puts behind the statepoint of site k
\* for the tracked value v; with adjacent the store of a relocate is the
\* very next instruction, without it other stores may stand between
StoredAtSite(k, v, adjacent) ==
    LET T == records[k].safepoint[1]
        r == findRelocateValuesAtSP(Fmat, T, v)
        end == records[k].safepoint[2]
        blk == F.blocks[BlockOf(F, end)]
    IN IF r # NoValue
       THEN /\ \E n \in PosOf(F, r) + 1 .. PosOf(F, PastStores(r)) - 1 :
                  /\ F.inst[blk[n]] = Store(r, allocaMap[v])
                  /\ adjacent => n = PosOf(F, r) + 1
            /\ SlotBefore(allocaMap[v], PastStores(end)) = {r}
       ELSE IF v = records[k].result
       THEN \A i \in Insts(F) :
               Written(allocaMap[v], i) = Null =>
                  ~(BlockOf(F, i) = BlockOf(F, end)
                      /\ PosOf(F, i) > PosOf(F, end)
                      /\ PosOf(F, i) < PosOf(F, PastStores(end)))
       ELSE /\ \E n \in PosOf(F, end) + 1 .. PosOf(F, PastStores(end)) - 1 :
                  F.inst[blk[n]] = Store(Null, allocaMap[v])
            /\ SlotBefore(allocaMap[v], PastStores(end)) = {Null}

\* the reads of the slot of v that relocationViaAlloca has put in front of
\* the uses of v
LoadsOf(v) ==
    {i \in Insts(F) : F.inst[i].op = "load" /\ F.inst[i].args = <<allocaMap[v]>>}

SlotsFollowStatepoints(adjacent) ==
    (pc = "promote") =>
       \A v \in DOMAIN allocaMap :
          /\ \A k \in DOMAIN records : StoredAtSite(k, v, adjacent)
          /\ v # Null => \A L \in LoadsOf(v) : Null \notin SlotBefore(allocaMap[v], L)

\* C29: for every statepoint S and every tracked value v (any value in the
\* live set of some site): if S has a relocate of v, the slot of v is
\* written with that relocate right behind it; otherwise, unless v is the
\* result of S itself, the slot of v is written with null behind the last
\* instruction of S; so past S a read of the slot of v yields the relocate
\* S made of v, or null, until v is defined again, and no use that the
\* original program could reach with a valid v reads the null.
C29_SlotsFollowStatepoints == SlotsFollowStatepoints(TRUE)

\* C29 as amended: the store of the relocate stands behind the relocate
\* with nothing but stores to other slots between the two (the null stores
\* of the site land behind its last instruction, which may be that
\* relocate); the rest as stated.
C29_StoresBehindStatepoint == SlotsFollowStatepoints(FALSE)

\* the slot of a value that one statepoint relocates is set to null behind
\* another statepoint, and the value is read from its slot
C29_Witness ==
    /\ pc = "promote"
    /\ \E v \in DOMAIN allocaMap : \E j, k \in DOMAIN records :
          /\ v # Null
          /\ findRelocateValuesAtSP(Fmat, records[j].safepoint[1], v) # NoValue
          /\ findRelocateValuesAtSP(Fmat, records[k].safepoint[1], v) = NoValue
          /\ v # records[k].result
          /\ LoadsOf(v) # {}


\* the site whose record this step fixes up
FixedUp(k) == pc = "fixup" /\ idx = k /\ k <= Len(records) /\ idx' = k + 1

\* the inserted values that stand in front of the site on every path to it
\* and have a use the site reaches without passing their definition
InsertedLiveAt(site) ==
    {V \in allInsertedDefs :
        InstDominates(F, Dom(F), V, site) /\ V \in LiveByPaths(F, site)}

InsertedDefsJoinLiveSets ==
    \A k \in DOMAIN records : FixedUp(k) =>
       LET old == records[k]
           new == records'[k]
       IN /\ \A V \in InsertedLiveAt(ParsePointNeeded[k]) :
                /\ V \in new.liveset
                /\ V \in DOMAIN new.base_pairs
                /\ new.base_pairs[V] = V
          /\ new.liveset \subseteq
                old.liveset \cup Range(old.base_pairs) \cup allInsertedDefs
          /\ DOMAIN new.base_pairs = new.liveset

\* C30: after the fixup for the inserted definitions, in either liveness
\* mode and at every site: each newly inserted value (base merge or cast,
\* from the resolution of any site) that dominates the site and has a use
\* reachable from it is in the live set of the site and is its own base;
\* the recomputed liveness adds nothing but values that were live, bases and
\* newly inserted values; and the keys of the base map are the live set.
C30_InsertedDefsJoinLiveSets == [][InsertedDefsJoinLiveSets]_vars

\* the record of a site has been fixed up and holds, as its own base, an
\* inserted base merge that dominates the site and is used behind it; a
\* cast has been inserted as well
C30_Witness ==
    /\ pc = "fixup"
    /\ \E k \in DOMAIN records :
          /\ k < idx
          /\ \E V \in InsertedLiveAt(ParsePointNeeded[k]) :
                /\ F.inst[V].op \in {"phi", "select"}
                /\ V \in records[k].liveset
                /\ records[k].base_pairs[V] = V
    /\ \E c \in allInsertedDefs : F.inst[c].op = "bitcast"

=============================================================================
